---- MODULE Spec2Model ----
(***************************************************************************)
(* Model of smart-grid: the layout engine (row distribution, row builder,  *)
(* grid unifier, span calculator) and the <smart-grid> component that      *)
(* drives it.                                                              *)
(*                                                                         *)
(* Numbers.  The source computes with IEEE doubles.  Every quantity below  *)
(* is a quotient of small integers, so it is modelled exactly with integer *)
(* arithmetic:                                                             *)
(*   Math.ceil(a / b)            is  Ceil(a, b)                            *)
(*   Math.floor(s * (G / t))     is  (s * G) \div t                        *)
(*   x - Math.floor(x)           is compared through (s * G) % t           *)
(*   Math.round(s * (G / t))     is  (2 * s * G + t) \div (2 * t)          *)
(*   lastRow / maxColumns >= 0.34  is  100 * lastRow >= 34 * maxColumns    *)
(* The last equivalence is exact for every maxColumns below 2^49: the      *)
(* double nearest to 0.34 is reached by a correctly rounded quotient p/q   *)
(* only if p/q is 17/50 or q is that large.                                *)
(***************************************************************************)
EXTENDS Integers, Sequences, FiniteSets, TLC

VARIABLES
    pc,             \* position of the function-level run: which call is next
    itemCount,      \* argument of calculateRowDistribution
    maxColumns,     \* argument of calculateRowDistribution / buildRows
    distribution,   \* result of calculateRowDistribution
    sizes,          \* argument of buildRows: unit size per item
    rows,           \* result of buildRows
    gridColumns,    \* result of calculateGridColumns
    fillArg,           \* argument of calculateSpans
    fillLastArg,       \* optional argument of calculateSpans
    spans,          \* result of calculateSpans (flat, in item order)
    \* the <smart-grid> element and its surroundings
    connected,              \* the element is in the document
    connections,            \* connectedCallback runs so far
    columnsAttr,            \* attribute columns: characters, or null
    fillAttr,               \* attribute fill: a string, or "null"
    fillLastAttr,           \* attribute fill-last: a string, or "null"
    balanceAttr,            \* attribute balance of the legacy element: a
                            \* string, or "null"
    orphansAttr,            \* attribute orphans of the legacy element: a
                            \* string, or "null"
    isSingleColumn,         \* field isSingleColumn of the legacy element;
                            \* data-layout is 'single' exactly when it is set
    children,               \* child elements: [size: data-size, span: inline
                            \* grid-column span, 0 when the property is unset]
    clientWidth,            \* width of the element when rendered, px
    css,                    \* the computed style and viewport read by
                            \* getMinWidthConfig
    styleColumns,           \* inline --columns of the element, 0 when unset
    styleGridColumns,       \* inline --grid-columns, 0 when unset
    mutationObserver,       \* null, or the observer with its queued records
    resizeObserver,         \* null, or the observer with the width of the
                            \* entry it has yet to deliver (-1: none)
    resizeTimeout,          \* width held by the pending timer of the current
                            \* setupObservers closure, -1 when none
    staleTimeouts,          \* widths held by pending timers of the closures
                            \* of earlier connections
    unitResolver,           \* null, or the resolver with its cache
    effectiveColumnsValue,
    lastCssProps

engineVars == <<pc, itemCount, maxColumns, distribution, sizes, rows,
                gridColumns, fillArg, fillLastArg, spans>>

componentVars == <<connected, connections, columnsAttr, fillAttr,
                   fillLastAttr, balanceAttr, orphansAttr,
                   isSingleColumn, children,
                   clientWidth, css, styleColumns, styleGridColumns,
                   mutationObserver, resizeObserver, resizeTimeout,
                   staleTimeouts, unitResolver, effectiveColumnsValue,
                   lastCssProps>>

vars == <<engineVars, componentVars>>

----------------------------------------------------------------------------
(* Bounds of the model *)

MaxItemCount == 14      \* item counts tried on calculateRowDistribution
MaxColumnsArg == 13     \* column counts tried on calculateRowDistribution
MaxItems == 5           \* items per run of the pipeline
MaxChildren == 3        \* children of the <smart-grid> element
MaxConnections == 1     \* times the element is inserted into a document

(* Program constants *)

BALANCE_THRESHOLD == 34         \* 0.34, in hundredths
MAX_COLUMNS == 12
DEFAULT_COLUMNS == 3

\* SIZE_UNITS: small 1, medium 2, large 3
UnitSizes == {1, 2, 3}

----------------------------------------------------------------------------
(* Arithmetic helpers *)

Min(a, b) == IF a <= b THEN a ELSE b
Max(a, b) == IF a >= b THEN a ELSE b

\* Math.ceil(a / b) for a >= 0, b > 0
Ceil(a, b) == (a + b - 1) \div b

RECURSIVE SumSeq(_)
SumSeq(s) == IF s = <<>> THEN 0 ELSE Head(s) + SumSeq(Tail(s))

\* Body at the value of e: e is worked out once, as a const is, however
\* often Body reads it.
With(e, Body(_)) == CHOOSE r \in {Body(v) : v \in {e}} : TRUE

Last(s) == s[Len(s)]

----------------------------------------------------------------------------
(* utils/distribute.ts *)

\* Fallback of calculateRowDistribution: rows of maxColumns, then the rest.
RECURSIVE simpleFill(_, _)
simpleFill(remaining, cols) ==
    IF remaining <= 0 THEN <<>>
    ELSE LET rowSize == Min(remaining, cols)
         IN  <<rowSize>> \o simpleFill(remaining - rowSize, cols)

\* tailRows without "left -= rowSize": every tail row is sized from the
\* whole remainder.
RECURSIVE tailRowsKeepLeft(_, _, _)
tailRowsKeepLeft(left, remainingRows, i) ==
    IF i >= remainingRows THEN <<>>
    ELSE <<Ceil(left, remainingRows - i)>>
           \o tailRowsKeepLeft(left, remainingRows, i + 1)

\* "Distribute remaining items evenly across tail rows": the loop over i.
RECURSIVE tailRows(_, _, _)
tailRows(left, remainingRows, i) ==
    IF i >= remainingRows THEN <<>>
    ELSE LET rowSize == Ceil(left, remainingRows - i)
         IN  <<rowSize>> \o tailRows(left - rowSize, remainingRows, i + 1)

\* orphanRatioAcceptable with a threshold of one third instead of 0.34
orphanRatioThird(lastRow, cols) ==
    3 * lastRow >= cols

\* orphanRatioAcceptable without the division by maxColumns
orphanRatioUndivided(lastRow, cols) ==
    100 * lastRow >= BALANCE_THRESHOLD

\* orphanRatio >= BALANCE_THRESHOLD, orphanRatio = lastRow / maxColumns
orphanRatioAcceptable(lastRow, cols) ==
    100 * lastRow >= BALANCE_THRESHOLD * cols

\* The for loop over fullRows = minRows - 1 down to 0, then the fallback.
RECURSIVE distributionSearch(_, _, _, _)
distributionSearch(items, cols, minRows, fullRows) ==
    IF fullRows < 0 THEN simpleFill(items, cols)
    ELSE
      LET itemsInFullRows == fullRows * cols
          remainingItems == items - itemsInFullRows
          remainingRows == minRows - fullRows
      IN
        IF remainingRows = 0
        THEN distributionSearch(items, cols, minRows, fullRows - 1)
        ELSE
          LET itemsPerRemainingRow == Ceil(remainingItems, remainingRows)
              candidate == [i \in 1..fullRows |-> cols]
                             \o tailRows(remainingItems, remainingRows, 0)
          IN
            IF /\ itemsPerRemainingRow <= cols
               /\ \/ orphanRatioAcceptable(Last(candidate), cols)
                  \/ Len(candidate) = 1
            THEN candidate
            ELSE distributionSearch(items, cols, minRows, fullRows - 1)

\* calculateRowDistribution with the search started at fullRows = 0
calculateRowDistributionFromZero(items, cols) ==
    IF items = 0 THEN <<>>
    ELSE IF cols <= 0 THEN <<>>
    ELSE IF items <= cols THEN <<items>>
    ELSE distributionSearch(items, cols, Ceil(items, cols), 0)

calculateRowDistribution(items, cols) ==
    IF items = 0 THEN <<>>
    ELSE IF cols <= 0 THEN <<>>
    ELSE IF items <= cols THEN <<items>>
    ELSE distributionSearch(items, cols, Ceil(items, cols),
                            Ceil(items, cols) - 1)

----------------------------------------------------------------------------
(* build-rows.ts.  A row is a sequence of items [index, size]; index is the *)
(* item's 0-based position in the input.                                    *)

\* closesRow judged on the open row alone, without the item being added
closesRowLate(currentRowSize, size, cols) == currentRowSize > cols

\* if (currentRowSize + size > maxColumns): the item does not fit the row
closesRow(currentRowSize, size, cols) == currentRowSize + size > cols

\* finishRows without the push of the row still open
finishRowsDropOpen(done, currentRow) == done

\* After the forEach: the row still open is pushed if it holds an item.
finishRows(done, currentRow) ==
    IF Len(currentRow) > 0 THEN Append(done, currentRow) ELSE done

\* The forEach of buildGreedyRows.
RECURSIVE greedyLoop(_, _, _, _, _, _)
greedyLoop(itemSizes, cols, i, done, currentRow, currentRowSize) ==
    IF i > Len(itemSizes)
    THEN finishRows(done, currentRow)
    ELSE
      LET size == itemSizes[i]
          closes == closesRow(currentRowSize, size, cols)
          done1 == IF closes /\ Len(currentRow) > 0
                   THEN Append(done, currentRow) ELSE done
          row1 == IF closes THEN <<>> ELSE currentRow
          rowSize1 == IF closes THEN 0 ELSE currentRowSize
      IN  greedyLoop(itemSizes, cols, i + 1, done1,
                     Append(row1, [index |-> i - 1, size |-> size]),
                     rowSize1 + size)

buildGreedyRows(itemSizes, cols) ==
    greedyLoop(itemSizes, cols, 1, <<>>, <<>>, 0)

RECURSIVE distributeRemaining(_, _)
distributeRemaining(items, rowCount) ==
    IF rowCount <= 0 THEN <<>>
    ELSE LET rowSize == Ceil(items, rowCount)
         IN  <<rowSize>> \o distributeRemaining(items - rowSize, rowCount - 1)

tryDistribution(items, cols, minRows, fullRows) ==
    LET itemsInFullRows == fullRows * cols
        remainingItems == items - itemsInFullRows
        remainingRows == minRows - fullRows
    IN  IF remainingRows <= 0 \/ remainingItems < 0 THEN <<>>
        ELSE IF Ceil(remainingItems, remainingRows) > cols THEN <<>>
        ELSE [i \in 1..fullRows |-> cols]
               \o distributeRemaining(remainingItems, remainingRows)

\* isBalanced asking for a last row of at least half the columns
isBalancedHalf(rowSizes, cols) ==
    IF Len(rowSizes) = 0 THEN FALSE
    ELSE Len(rowSizes) = 1 \/ 2 * Last(rowSizes) >= cols

\* lastRow / cols >= 0.34
isBalanced(rowSizes, cols) ==
    IF Len(rowSizes) = 0 THEN FALSE
    ELSE Len(rowSizes) = 1 \/ 100 * Last(rowSizes) >= 34 * cols

RECURSIVE fillGreedy(_, _)
fillGreedy(items, cols) ==
    IF items <= 0 THEN <<>>
    ELSE LET rowSize == Min(items, cols)
         IN  <<rowSize>> \o fillGreedy(items - rowSize, cols)

\* The for loop of calculateBalancedDistribution, from fullRows down to 0.
RECURSIVE balancedSearch(_, _, _, _)
balancedSearch(items, cols, minRows, fullRows) ==
    IF fullRows < 0 THEN fillGreedy(items, cols)
    ELSE LET result == tryDistribution(items, cols, minRows, fullRows)
         IN  IF Len(result) # 0 /\ isBalanced(result, cols)
             THEN result
             ELSE balancedSearch(items, cols, minRows, fullRows - 1)

calculateBalancedDistribution(items, cols, minRows) ==
    balancedSearch(items, cols, minRows, minRows - 1)

\* The loop of buildBalancedRows that cuts the items into rows of the
\* distribution's sizes; itemIndex is 0-based.
RECURSIVE sliceRows(_, _, _)
sliceRows(itemSizes, rowSizes, itemIndex) ==
    IF rowSizes = <<>> THEN <<>>
    ELSE LET rowSize == Head(rowSizes)
             row == [k \in 1..rowSize |->
                        [index |-> itemIndex + k - 1,
                         size |-> itemSizes[itemIndex + k]]]
         IN  <<row>> \o sliceRows(itemSizes, Tail(rowSizes), itemIndex + rowSize)

buildBalancedRows(itemSizes, cols) ==
    LET count == Len(itemSizes)
    IN  IF count <= cols
        THEN << [k \in 1..count |-> [index |-> k - 1, size |-> itemSizes[k]]] >>
        ELSE sliceRows(itemSizes,
                       calculateBalancedDistribution(count, cols, Ceil(count, cols)),
                       0)

buildRows(itemSizes, cols) ==
    IF Len(itemSizes) = 0 THEN <<>>
    ELSE LET isUniform == \A k \in 1..Len(itemSizes) : itemSizes[k] = itemSizes[1]
         IN  IF isUniform /\ itemSizes[1] = 1
             THEN buildBalancedRows(itemSizes, cols)
             ELSE buildGreedyRows(itemSizes, cols)

----------------------------------------------------------------------------
(* smart-grid.ts: the grid unifier *)

RECURSIVE greatestCommonDivisor(_, _)
greatestCommonDivisor(a, b) ==
    IF b = 0 THEN a ELSE greatestCommonDivisor(b, a % b)

\* leastCommonMultiple without the division by the common divisor
leastCommonMultipleUndivided(a, b) == a * b

leastCommonMultiple(a, b) == (a * b) \div greatestCommonDivisor(a, b)

rowTotal(row) == SumSeq([k \in 1..Len(row) |-> row[k].size])

RECURSIVE MaxSeq(_)
MaxSeq(s) == IF Len(s) = 1 THEN s[1] ELSE Max(Head(s), MaxSeq(Tail(s)))

RECURSIVE lcmReduce(_, _)
lcmReduce(acc, lens) ==
    IF lens = <<>> THEN acc
    ELSE lcmReduce(leastCommonMultiple(acc, Head(lens)), Tail(lens))

calculateGridColumns(rs) ==
    LET rowLengths == [r \in 1..Len(rs) |-> Len(rs[r])]
        rowTotals == [r \in 1..Len(rs) |-> rowTotal(rs[r])]
        allSameLength == \A r \in 1..Len(rs) : rowLengths[r] = rowLengths[1]
    IN  IF allSameLength THEN MaxSeq(rowTotals)
        ELSE lcmReduce(1, rowLengths)

----------------------------------------------------------------------------
(* calculate-spans.ts *)

\* fractionalParts.sort((a, b) => b.fraction - a.fraction): the positions of
\* the row by descending fraction, equal fractions in row order (the sort is
\* stable).  fraction[k] is the numerator of the fractional part over the
\* row's total.
RECURSIVE sortByFraction(_, _)
sortByFraction(fraction, left) ==
    IF left = {} THEN <<>>
    ELSE LET first == CHOOSE k \in left :
                        \A j \in left \ {k} :
                            \/ fraction[k] > fraction[j]
                            \/ fraction[k] = fraction[j] /\ k < j
         IN  <<first>> \o sortByFraction(fraction, left \ {first})

\* handOut that leaves the remainder with no item
handOutNothing(result, order, remainder) == result

\* The loop that hands out the remainder, one unit per item in sorted order.
RECURSIVE handOut(_, _, _)
handOut(result, order, remainder) ==
    IF order = <<>> \/ remainder <= 0 THEN result
    ELSE handOut([result EXCEPT ![Head(order)] = @ + 1], Tail(order),
                 remainder - 1)

distributeColumns(row, cols, totalSize) ==
    LET n == Len(row)
        \* exactSpans[k] = row[k].size * cols / totalSize
        floorOfExact == [k \in 1..n |-> (row[k].size * cols) \div totalSize]
        fraction == [k \in 1..n |-> (row[k].size * cols) % totalSize]
    IN  With([k \in 1..n |-> Max(1, floorOfExact[k])],
             LAMBDA floorSpans :
                 With(cols - SumSeq(floorSpans),
                      LAMBDA remainder :
                          With(sortByFraction(fraction, 1..n),
                               LAMBDA order :
                                   handOut(floorSpans, order, remainder))))

\* calculateRowSpans with the reference branch keeping raw sizes
calculateRowSpansRawSizes(row, cols, mode, referenceTotalSize) ==
    IF mode = "none"
    THEN [k \in 1..Len(row) |-> row[k].size]
    ELSE With(rowTotal(row),
              LAMBDA totalSize :
                  IF totalSize = 0 THEN [k \in 1..Len(row) |-> 1]
                  ELSE distributeColumns(row, cols, totalSize))

\* referenceTotalSize is -1 for null.  A reference total of 0 makes the
\* scale factor Infinity: Math.max(1, Math.round(size * Infinity)) is
\* Infinity for a size above 0 and NaN for size 0.
calculateRowSpans(row, cols, mode, referenceTotalSize) ==
    IF mode = "none"
    THEN IF referenceTotalSize # -1
         THEN IF referenceTotalSize = 0
              THEN [k \in 1..Len(row) |->
                      IF row[k].size = 0 THEN "NaN" ELSE "Infinity"]
              ELSE [k \in 1..Len(row) |->
                      Max(1, (2 * row[k].size * cols + referenceTotalSize)
                                \div (2 * referenceTotalSize))]
         ELSE [k \in 1..Len(row) |-> row[k].size]
    ELSE With(rowTotal(row),
              LAMBDA totalSize :
                  IF totalSize = 0 THEN [k \in 1..Len(row) |-> 1]
                  ELSE distributeColumns(row, cols, totalSize))

RECURSIVE flatten(_)
flatten(ss) == IF ss = <<>> THEN <<>> ELSE Head(ss) \o flatten(Tail(ss))

\* fillLastMode is "undefined" when the argument is left out.
calculateSpans(rs, cols, fillMode, fillLastMode) ==
    IF Len(rs) = 0 THEN <<>>
    ELSE
      LET effectiveFillLast == IF fillLastMode = "undefined" THEN fillMode
                               ELSE fillLastMode
          \* rows.find: the first row of that length
          referenceRow(maxRowLength) ==
              rs[CHOOSE r \in 1..Len(rs) :
                    /\ Len(rs[r]) = maxRowLength
                    /\ \A q \in 1..(r - 1) : Len(rs[q]) # maxRowLength]
          rowSpans(r, referenceTotalSize) ==
            LET isLastRow == r = Len(rs)
                mode == IF isLastRow THEN effectiveFillLast ELSE fillMode
                useReferenceSize == /\ isLastRow /\ fillLastMode = "none"
                                    /\ fillMode = "equal-extra"
            IN  calculateRowSpans(rs[r], cols, mode,
                                  IF useReferenceSize THEN referenceTotalSize
                                  ELSE -1)
      IN  With(MaxSeq([r \in 1..Len(rs) |-> Len(rs[r])]),
               LAMBDA maxRowLength :
                   With(rowTotal(referenceRow(maxRowLength)),
                        LAMBDA referenceTotalSize :
                            With([r \in 1..Len(rs) |->
                                     rowSpans(r, referenceTotalSize)],
                                 flatten)))

----------------------------------------------------------------------------
(* utils/resolve-to-pixels.ts.  A CSS length is [value, unit]; the empty    *)
(* string (a property that is not set) is NoExpr.  Magnitudes are exact     *)
(* fractions [n, d] of a pixel, in lowest terms.                            *)

null == <<>>

NoExpr == [value |-> 0, unit |-> ""]

Frac(n, d) ==
    LET g == greatestCommonDivisor(n, d)
    IN  [n |-> n \div g, d |-> d \div g]

FracLess(a, b) == a.n * b.d < b.n * a.d

FracMax(a, b) == IF FracLess(a, b) THEN b ELSE a

\* env: [fontSize, rootFontSize, viewportWidth, viewportHeight], px
convertDirect(value, unit, env) ==
    CASE unit \in {"", "px"} -> Frac(value, 1)
      [] unit = "rem" -> Frac(value * env.rootFontSize, 1)
      [] unit = "em" -> Frac(value * env.fontSize, 1)
      [] unit = "vw" -> Frac(value * env.viewportWidth, 100)
      [] unit = "vh" -> Frac(value * env.viewportHeight, 100)
      [] unit = "vmin" ->
           Frac(value * Min(env.viewportWidth, env.viewportHeight), 100)
      [] unit = "vmax" ->
           Frac(value * Max(env.viewportWidth, env.viewportHeight), 100)
      [] unit = "in" -> Frac(value * 96, 1)
      [] unit = "cm" -> Frac(value * 9600, 254)
      [] unit = "mm" -> Frac(value * 960, 254)
      [] unit = "pt" -> Frac(value * 96, 72)
      [] unit = "pc" -> Frac(value * 96, 6)

\* Every length of the model matches UNIT_PATTERN, so measureWithDOM is not
\* reached.
resolveToPixels(expr, env) ==
    IF expr = NoExpr THEN Frac(0, 1)
    ELSE convertDirect(expr.value, expr.unit, env)

\* UnitResolver.resolve on a resolver whose cache is `cache` (a function
\* from lengths to magnitudes): the magnitude and the cache afterwards.
resolve(cache, expr, env) ==
    IF expr = NoExpr THEN [px |-> Frac(0, 1), cache |-> cache]
    ELSE IF expr \in DOMAIN cache THEN [px |-> cache[expr], cache |-> cache]
    ELSE LET result == resolveToPixels(expr, env)
         IN  [px |-> result,
              cache |-> [e \in DOMAIN cache \cup {expr} |->
                            IF e = expr THEN result ELSE cache[e]]]

emptyCache == [e \in {} |-> Frac(0, 1)]

----------------------------------------------------------------------------
(* parse-size.ts, apply-spans.ts *)

SIZE_UNITS == [small |-> 1, medium |-> 2, large |-> 3]

\* sizeAttr is the item's data-size, "null" when the attribute is missing.
parseSize(sizeAttr, cols) ==
    LET units == IF sizeAttr \in DOMAIN SIZE_UNITS THEN SIZE_UNITS[sizeAttr]
                 ELSE 1
    IN  Min(units, cols)

\* applySpans that leaves the grid-column of an item whose span is 1 alone
applySpansKeepStale(items, itemSpans) ==
    [k \in 1..Len(items) |->
        [items[k] EXCEPT !.span =
            IF k <= Len(itemSpans) /\ itemSpans[k] > 1 THEN itemSpans[k]
            ELSE items[k].span]]

applySpans(items, itemSpans) ==
    [k \in 1..Len(items) |->
        [items[k] EXCEPT !.span =
            IF k <= Len(itemSpans) /\ itemSpans[k] > 1 THEN itemSpans[k]
            ELSE 0]]

clearSpans(items) ==
    [k \in 1..Len(items) |-> [items[k] EXCEPT !.span = 0]]

----------------------------------------------------------------------------
(* smart-grid.ts: the component *)

Digits == [c \in {"0", "1", "2", "3", "4", "5", "6", "7", "8", "9"} |->
             CASE c = "0" -> 0 [] c = "1" -> 1 [] c = "2" -> 2 [] c = "3" -> 3
               [] c = "4" -> 4 [] c = "5" -> 5 [] c = "6" -> 6 [] c = "7" -> 7
               [] c = "8" -> 8 [] c = "9" -> 9]

\* The digits at the head of chars, read as a number after acc.
RECURSIVE leadingDigits(_, _)
leadingDigits(chars, acc) ==
    IF chars = <<>> \/ Head(chars) \notin DOMAIN Digits THEN acc
    ELSE leadingDigits(Tail(chars), 10 * acc + Digits[Head(chars)])

RECURSIVE skipWhitespace(_)
skipWhitespace(chars) ==
    IF chars # <<>> /\ Head(chars) = " " THEN skipWhitespace(Tail(chars))
    ELSE chars

NaN == [nan |-> TRUE, value |-> 0]

Number(n) == [nan |-> FALSE, value |-> n]

\* parseInt(text, 10) on a sequence of characters
parseInt(text) ==
    LET trimmed == skipWhitespace(text)
        negative == trimmed # <<>> /\ Head(trimmed) = "-"
        unsigned == IF trimmed # <<>> /\ Head(trimmed) \in {"-", "+"}
                    THEN Tail(trimmed) ELSE trimmed
    IN  IF unsigned = <<>> \/ Head(unsigned) \notin DOMAIN Digits THEN NaN
        ELSE IF negative THEN Number(0 - leadingDigits(unsigned, 0))
        ELSE Number(leadingDigits(unsigned, 0))

\* get columns() without its Math.max(1, ...)
columnsNoFloor(attr) ==
    LET parsed == IF attr # null THEN parseInt(attr)
                  ELSE Number(DEFAULT_COLUMNS)
        value == IF parsed.nan THEN DEFAULT_COLUMNS ELSE parsed.value
    IN  Min(MAX_COLUMNS, value)

\* get columns(): attr is the attribute's characters, or null.  The empty
\* string is falsy, like null.
columns(attr) ==
    LET parsed == IF attr # null THEN parseInt(attr)
                  ELSE Number(DEFAULT_COLUMNS)
        value == IF parsed.nan THEN DEFAULT_COLUMNS ELSE parsed.value
    IN  Max(1, Min(MAX_COLUMNS, value))

\* get fill()
fill(attr) == IF attr = "none" THEN "none" ELSE "equal-extra"

\* get fillLast()
fillLast(attrLast, attrFill) ==
    IF attrLast = "none" THEN "none"
    ELSE IF attrLast = "equal-extra" THEN "equal-extra"
    ELSE fill(attrFill)

\* null when no minimum width is configured, else the configuration.
getMinWidthConfig(style) ==
    IF style.small = NoExpr /\ style.medium = NoExpr /\ style.large = NoExpr
    THEN null
    ELSE <<style>>

\* The cache key of invalidateCacheIfStylesChanged: the nine fields joined.
cacheKey(config) ==
    <<config.small, config.medium, config.large, config.gap,
      config.computedColumnGap, config.fontSize, config.rootFontSize,
      config.viewportWidth, config.viewportHeight>>

\* invalidateCacheIfStylesChanged that notes the new key and keeps the cache
invalidateKeepingCache(config, cache, lastKey) ==
    [cache |-> cache, lastCssProps |-> cacheKey(config)]

\* The cache and lastCssProps after invalidateCacheIfStylesChanged.
invalidateCacheIfStylesChanged(config, cache, lastKey) ==
    IF cacheKey(config) # lastKey
    THEN [cache |-> emptyCache, lastCssProps |-> cacheKey(config)]
    ELSE [cache |-> cache, lastCssProps |-> lastKey]

\* computedColumnGap is the used column-gap in px, or "normal" as -1:
\* parseFloat("normal") || 0 is 0.
resolveGap(config, cache) ==
    IF config.gap # NoExpr THEN resolve(cache, config.gap, config)
    ELSE [px |-> IF config.computedColumnGap < 0 THEN Frac(0, 1)
                 ELSE Frac(config.computedColumnGap, 1),
          cache |-> cache]

collectItemSizes(items) ==
    {IF items[k].size \in {"null", ""} THEN "small" ELSE items[k].size :
        k \in 1..Len(items)}

\* Math.max(maxMinWidthPerUnit, resolved / units), the resolver's cache kept
maxPerUnit(acc, resolved, units) ==
    [px |-> FracMax(acc.px, Frac(resolved.px.n, units * resolved.px.d)),
     cache |-> resolved.cache]

\* One if-statement of calculateMinWidthPerUnit: acc is the maximum so far
\* and the cache.
minWidthStep(acc, applies, expr, units, config) ==
    IF applies /\ expr # NoExpr
    THEN With(acc,
              LAMBDA soFar :
                  With(resolve(soFar.cache, expr, config),
                       LAMBDA resolved : maxPerUnit(soFar, resolved, units)))
    ELSE acc

\* calculateMinWidthPerUnit that counts a tier whether or not an item of it
\* is present
calculateMinWidthPerUnitEveryTier(config, sizesPresent, cache) ==
    minWidthStep(
        minWidthStep(
            minWidthStep([px |-> Frac(0, 1), cache |-> cache],
                         TRUE, config.small, 1, config),
            TRUE, config.medium, 2, config),
        TRUE, config.large, 3, config)

calculateMinWidthPerUnit(config, sizesPresent, cache) ==
    minWidthStep(
        minWidthStep(
            minWidthStep([px |-> Frac(0, 1), cache |-> cache],
                         TRUE, config.small, 1, config),
            "medium" \in sizesPresent, config.medium, 2, config),
        "large" \in sizesPresent, config.large, 3, config)

\* Math.floor((width + gap) / (minWidthPerUnit + gap)), clamped to 1..cols
fitColumnsToWidth(width, gap, minWidthPerUnit, cols) ==
    LET columnsThatFit ==
            ((width * gap.d + gap.n) * minWidthPerUnit.d)
                \div (minWidthPerUnit.n * gap.d + gap.n * minWidthPerUnit.d)
    IN  Min(Max(1, columnsThatFit), cols)

\* The end of calculateEffectiveColumns, with the gap and the minimum width
\* per unit resolved.
fittedColumns(width, cols, gap, perUnit, lastKey) ==
    [columns |-> IF perUnit.px.n = 0 THEN cols
                 ELSE fitColumnsToWidth(width, gap.px, perUnit.px, cols),
     resolver |-> <<perUnit.cache>>,
     lastCssProps |-> lastKey]

\* calculateEffectiveColumns from resolveGap on; gap is its outcome.
columnsForGap(width, items, cols, config, gap, lastKey) ==
    With(calculateMinWidthPerUnit(config, collectItemSizes(items), gap.cache),
         LAMBDA minWidthPerUnit :
             fittedColumns(width, cols, gap, minWidthPerUnit, lastKey))

\* calculateEffectiveColumns from invalidateCacheIfStylesChanged on; inv is
\* its outcome.
columnsForConfig(width, items, cols, config, inv) ==
    With(resolveGap(config, inv.cache),
         LAMBDA gap :
             columnsForGap(width, items, cols, config, gap,
                           inv.lastCssProps))

\* The column count, the resolver and lastCssProps afterwards.
calculateEffectiveColumns(width, items, cols, style, resolver, lastKey) ==
    IF width <= 0 \/ resolver = null \/ getMinWidthConfig(style) = null
    THEN [columns |-> cols, resolver |-> resolver, lastCssProps |-> lastKey]
    ELSE With(invalidateCacheIfStylesChanged(style, resolver[1], lastKey),
              LAMBDA inv : columnsForConfig(width, items, cols, style, inv))

\* What applyLayoutWithRows leaves: --grid-columns (0 unset) and the items.
applyLayoutWithRows(items, rs, cAttr, fAttr, flAttr) ==
    LET uniqueRowSizes == {Len(rs[r]) : r \in 1..Len(rs)}
        allItemsSameSize ==
            \A r \in 1..Len(rs) : \A k \in 1..Len(rs[r]) : rs[r][k].size = 1
        fillLastDiffers == fillLast(flAttr, fAttr) # fill(fAttr)
    IN
      IF /\ Cardinality(uniqueRowSizes) = 1 /\ allItemsSameSize
         /\ fill(fAttr) = "equal-extra" /\ ~fillLastDiffers
      THEN LET uniformSize == CHOOSE n \in uniqueRowSizes : TRUE
           IN  [gridColumns |-> IF uniformSize = columns(cAttr) THEN 0
                                ELSE uniformSize,
                items |-> clearSpans(items)]
      ELSE IF fill(fAttr) = "none"
      THEN [gridColumns |-> MaxSeq([r \in 1..Len(rs) |-> rowTotal(rs[r])]),
            items |-> clearSpans(items)]
      ELSE With(calculateGridColumns(rs),
                LAMBDA grid :
                    With(calculateSpans(rs, grid, fill(fAttr),
                                        fillLast(flAttr, fAttr)),
                         LAMBDA itemSpans :
                             [gridColumns |-> grid,
                              items |-> applySpans(items, itemSpans)]))

\* What a pass leaves, given the outcomes of calculateEffectiveColumns and
\* applyLayoutWithRows.
layoutOutcome(eff, laid) ==
    [gridColumns |-> laid.gridColumns, items |-> laid.items,
     effectiveColumnsValue |-> eff.columns,
     resolver |-> eff.resolver, lastCssProps |-> eff.lastCssProps]

\* items.map((item) => parseSize(item, maxColumns))
itemSizes(items, cols) ==
    [k \in 1..Len(items) |-> parseSize(items[k].size, cols)]

\* applyLayout from parseSize on; eff is the outcome of
\* calculateEffectiveColumns.
layoutForColumns(items, eff, cAttr, fAttr, flAttr) ==
    With(buildRows(itemSizes(items, eff.columns), eff.columns),
         LAMBDA builtRows :
             With(applyLayoutWithRows(items, builtRows, cAttr, fAttr, flAttr),
                  LAMBDA laid : layoutOutcome(eff, laid)))

\* applyLayout(width): width is null for a call without argument, cw is
\* this.clientWidth.  Gives the fields and styles the pass leaves.
applyLayout(width, cw, items, cAttr, fAttr, flAttr, style, resolver, lastKey) ==
    IF Len(items) = 0
    THEN [gridColumns |-> 0, items |-> items, effectiveColumnsValue |-> 0,
          resolver |-> resolver, lastCssProps |-> lastKey]
    ELSE With(calculateEffectiveColumns(
                  IF width = null THEN cw ELSE width[1], items,
                  columns(cAttr), style, resolver, lastKey),
              LAMBDA maxColumnsNow :
                  layoutForColumns(items, maxColumnsNow, cAttr, fAttr,
                                   flAttr))

----------------------------------------------------------------------------
(* Function-level runs: the inputs are drawn in Init, one action per call. *)

FillModes == {"equal-extra", "none"}

\* The documents tried: child data-size values, columns attributes, element
\* widths and the two style sheets.
DataSizes == {"null", "large"}

ColumnsAttrs == {null, <<"2">>}

Widths == {120, 340}

NoMinWidthStyle ==
    [small |-> NoExpr, medium |-> NoExpr, large |-> NoExpr, gap |-> NoExpr,
     computedColumnGap |-> -1, fontSize |-> 16, rootFontSize |-> 16,
     viewportWidth |-> 1000, viewportHeight |-> 800]

MinWidthStyle ==
    [NoMinWidthStyle EXCEPT !.small = [value |-> 100, unit |-> "px"],
                            !.large = [value |-> 20, unit |-> "rem"],
                            !.gap = [value |-> 1, unit |-> "rem"]]

\* The element as constructed: no attribute, no child, not in a document.
ElementCreated ==
    /\ connected = FALSE /\ connections = 0
    /\ columnsAttr = null /\ fillAttr = "null" /\ fillLastAttr = "null"
    /\ balanceAttr = "null" /\ orphansAttr = "null"
    /\ isSingleColumn = FALSE
    /\ children = <<>>
    /\ styleColumns = 0 /\ styleGridColumns = 0
    /\ mutationObserver = null /\ resizeObserver = null
    /\ resizeTimeout = -1 /\ staleTimeouts = {}
    /\ unitResolver = null
    /\ effectiveColumnsValue = 0
    /\ lastCssProps = null

\* No call of the function-level runs is in progress.
EngineIdle ==
    /\ pc = "component"
    /\ itemCount = 0 /\ maxColumns = 1 /\ distribution = <<>>
    /\ sizes = <<>> /\ rows = <<>> /\ gridColumns = 0
    /\ fillArg = "equal-extra" /\ fillLastArg = "undefined" /\ spans = <<>>

BoundedSeq(S, n) == UNION {[1..k -> S] : k \in 0..n}

InitDistribution ==
    /\ pc = "distribute"
    /\ itemCount \in 0..MaxItemCount
    /\ maxColumns \in 1..MaxColumnsArg
    /\ distribution = <<>>
    /\ sizes = <<>> /\ rows = <<>> /\ gridColumns = 0
    /\ fillArg = "equal-extra" /\ fillLastArg = "undefined" /\ spans = <<>>
    /\ ElementCreated /\ clientWidth = 0 /\ css = NoMinWidthStyle

Distribute ==
    /\ pc = "distribute"
    /\ distribution' = calculateRowDistribution(itemCount, maxColumns)
    /\ pc' = "distributed"
    /\ UNCHANGED <<itemCount, maxColumns, sizes, rows, gridColumns,
                   fillArg, fillLastArg, spans, componentVars>>

NextDistribution == Distribute

SpecDistribution == InitDistribution /\ [][NextDistribution]_vars

\* The pipeline of applyLayout / applyLayoutWithRows on given sizes:
\* buildRows, then calculateGridColumns, then calculateSpans.
InitPipeline ==
    /\ pc = "build"
    /\ sizes \in BoundedSeq(UnitSizes, MaxItems)
    /\ maxColumns \in 1..MAX_COLUMNS
    /\ itemCount = 0 /\ distribution = <<>>
    /\ rows = <<>> /\ gridColumns = 0
    /\ fillArg = "equal-extra" /\ fillLastArg = "undefined" /\ spans = <<>>
    /\ ElementCreated /\ clientWidth = 0 /\ css = NoMinWidthStyle

\* No items: applyLayout returns before any row is laid out.
BuildRows ==
    /\ pc = "build"
    /\ rows' = buildRows(sizes, maxColumns)
    /\ pc' = IF Len(sizes) = 0 THEN "done" ELSE "unify"
    /\ UNCHANGED <<itemCount, maxColumns, distribution, sizes, gridColumns,
                   fillArg, fillLastArg, spans, componentVars>>

UnifyGrid ==
    /\ pc = "unify"
    /\ gridColumns' = calculateGridColumns(rows)
    /\ pc' = "spans"
    /\ UNCHANGED <<itemCount, maxColumns, distribution, sizes, rows,
                   fillArg, fillLastArg, spans, componentVars>>

CalculateSpans ==
    /\ pc = "spans"
    /\ \E f \in FillModes, fl \in FillModes \cup {"undefined"} :
         /\ fillArg' = f
         /\ fillLastArg' = fl
         /\ spans' = calculateSpans(rows, gridColumns, f, fl)
    /\ pc' = "done"
    /\ UNCHANGED <<itemCount, maxColumns, distribution, sizes, rows,
                   gridColumns, componentVars>>

NextPipeline == BuildRows \/ UnifyGrid \/ CalculateSpans

SpecPipeline == InitPipeline /\ [][NextPipeline]_vars

----------------------------------------------------------------------------
(* The <smart-grid> element in a document: its callbacks, the observers'    *)
(* callbacks, the resize timer, and the changes the page makes to it.       *)
(* The element has no padding, so contentRect.width is clientWidth.         *)

InitComponent ==
    /\ EngineIdle
    /\ ElementCreated
    /\ clientWidth \in Widths
    /\ css \in {NoMinWidthStyle, MinWidthStyle}

\* this.clientWidth: 0 while the element is not rendered
clientWidthNow == IF connected THEN clientWidth ELSE 0

\* unitResolver?.clearCache()
clearCache(resolver) == IF resolver = null THEN null ELSE <<emptyCache>>

\* The records an observer gains: none when there is no observer.
queueRecords(observer, types) ==
    IF observer = null THEN null ELSE <<observer[1] \cup types>>

\* The record the style writes of a pass queue: one of type attributes when
\* a style attribute of the element or of a child changed.
styleRecords(res, items, columnsBefore, columnsAfter) ==
    IF \/ res.items # items
       \/ res.gridColumns # styleGridColumns
       \/ columnsBefore # columnsAfter
    THEN {"attributes"} ELSE {}

\* The fields and styles a pass with outcome res leaves.
commitLayout(res) ==
    /\ children' = res.items
    /\ styleGridColumns' = res.gridColumns
    /\ effectiveColumnsValue' = res.effectiveColumnsValue
    /\ unitResolver' = res.resolver
    /\ lastCssProps' = res.lastCssProps

\* connectedCallback: the observers are set up after --columns is written
\* and before the first pass; a ResizeObserver reports once on observe.
connectedCallback ==
    /\ ~connected
    /\ connected' = TRUE
    /\ connections' = connections + 1
    /\ styleColumns' = columns(columnsAttr)
    /\ \E res \in {applyLayout(null, clientWidth, children, columnsAttr,
                                fillAttr, fillLastAttr, css, <<emptyCache>>,
                                lastCssProps)} :
         /\ commitLayout(res)
         /\ mutationObserver' = <<styleRecords(res, children, 0, 0)>>
    /\ resizeObserver' = <<clientWidth>>
    /\ UNCHANGED <<columnsAttr, fillAttr, fillLastAttr, balanceAttr, orphansAttr,
                   isSingleColumn,
                   clientWidth, css,
                   resizeTimeout, staleTimeouts, engineVars>>

\* The page inserts the element into the document.
Connect == connections < MaxConnections /\ connectedCallback

\* disconnectedCallback: the pending timer is not cleared.
Disconnect ==
    /\ connected
    /\ connected' = FALSE
    /\ mutationObserver' = null
    /\ resizeObserver' = null
    /\ unitResolver' = null
    /\ resizeTimeout' = -1
    /\ staleTimeouts' = staleTimeouts \cup ({resizeTimeout} \ {-1})
    /\ UNCHANGED <<connections, columnsAttr, fillAttr, fillLastAttr,
                   balanceAttr, orphansAttr,
                   isSingleColumn, children,
                   clientWidth, css, styleColumns, styleGridColumns,
                   effectiveColumnsValue, lastCssProps, engineVars>>

\* attributeChangedCallback, after the attributes became c, f and fl
attributeChangedCallback(c, f, fl) ==
    /\ columnsAttr' = c /\ fillAttr' = f /\ fillLastAttr' = fl
    /\ UNCHANGED <<balanceAttr, orphansAttr, isSingleColumn>>
    /\ styleColumns' = columns(c)
    /\ \E res \in {applyLayout(null, clientWidthNow, children, c, f, fl, css,
                                unitResolver, lastCssProps)} :
         /\ commitLayout(res)
         /\ mutationObserver' =
              queueRecords(mutationObserver,
                           styleRecords(res, children, styleColumns,
                                        columns(c)))
    /\ UNCHANGED <<connected, connections, clientWidth, css, resizeObserver,
                   resizeTimeout, staleTimeouts, engineVars>>

\* The page sets or removes an observed attribute.
SetColumns ==
    \E c \in ColumnsAttrs :
        /\ c # null \/ columnsAttr # null
        /\ attributeChangedCallback(c, fillAttr, fillLastAttr)

SetFill ==
    \E f \in {"null", "none"} :
        /\ f # "null" \/ fillAttr # "null"
        /\ attributeChangedCallback(columnsAttr, f, fillLastAttr)

SetFillLast ==
    \E fl \in {"null", "none", "equal-extra"} :
        /\ fl # "null" \/ fillLastAttr # "null"
        /\ attributeChangedCallback(columnsAttr, fillAttr, fl)

\* The page changes the children; the observer, if any, queues a record.
pageChange(items, type) ==
    /\ children' = items
    /\ mutationObserver' = queueRecords(mutationObserver, {type})
    /\ UNCHANGED <<connected, connections, columnsAttr, fillAttr,
                   fillLastAttr, balanceAttr, orphansAttr,
                   isSingleColumn, clientWidth,
                   css, styleColumns, styleGridColumns, resizeObserver,
                   resizeTimeout, staleTimeouts, unitResolver,
                   effectiveColumnsValue, lastCssProps, engineVars>>

AddChild ==
    /\ Len(children) < MaxChildren
    /\ \E size \in DataSizes :
         pageChange(Append(children, [size |-> size, span |-> 0]),
                    "childList")

RemoveChild ==
    \E k \in 1..Len(children) :
        pageChange(SubSeq(children, 1, k - 1)
                       \o SubSeq(children, k + 1, Len(children)),
                   "childList")

SetDataSize ==
    \E k \in 1..Len(children), size \in DataSizes :
        /\ size # children[k].size
        /\ pageChange([children EXCEPT ![k].size = size], "attributes")

\* A pass from one of the callbacks, on resolver, with the width argument;
\* observer is the MutationObserver as the pass finds it.
layoutPass(width, resolver, observer) ==
    \E res \in {applyLayout(width, clientWidthNow, children, columnsAttr,
                             fillAttr, fillLastAttr, css, resolver,
                             lastCssProps)} :
        /\ commitLayout(res)
        /\ mutationObserver' =
             queueRecords(observer, styleRecords(res, children, 0, 0))

\* A MutationObserver callback that takes the records and lays nothing out
MutationCallbackWithoutLayout ==
    /\ mutationObserver # null
    /\ mutationObserver[1] # {}
    /\ mutationObserver' = <<{}>>
    /\ UNCHANGED <<connected, connections, columnsAttr, fillAttr,
                   fillLastAttr, balanceAttr, orphansAttr,
                   isSingleColumn, children, clientWidth, css,
                   styleColumns,
                   styleGridColumns, resizeObserver, resizeTimeout,
                   staleTimeouts, unitResolver, effectiveColumnsValue,
                   lastCssProps, engineVars>>

\* The MutationObserver callback takes every queued record.
MutationCallback ==
    /\ mutationObserver # null
    /\ mutationObserver[1] # {}
    /\ layoutPass(null,
                  IF "attributes" \in mutationObserver[1]
                  THEN clearCache(unitResolver) ELSE unitResolver,
                  <<{}>>)
    /\ UNCHANGED <<connected, connections, columnsAttr, fillAttr,
                   fillLastAttr, balanceAttr, orphansAttr,
                   isSingleColumn, clientWidth,
                   css, styleColumns, resizeObserver, resizeTimeout,
                   staleTimeouts, engineVars>>

\* The page resizes the element; the ResizeObserver notes the new width.
ElementResized ==
    /\ connected
    /\ \E w \in Widths \ {clientWidth} :
         /\ clientWidth' = w
         /\ resizeObserver' = <<w>>
    /\ UNCHANGED <<connected, connections, columnsAttr, fillAttr,
                   fillLastAttr, balanceAttr, orphansAttr,
                   isSingleColumn, children,
                   css, styleColumns, styleGridColumns, mutationObserver,
                   resizeTimeout, staleTimeouts, unitResolver,
                   effectiveColumnsValue, lastCssProps, engineVars>>

\* The ResizeObserver callback: clearTimeout, then setTimeout(..., 50).
ResizeObserverCallback ==
    /\ resizeObserver # null
    /\ resizeObserver[1] # -1
    /\ resizeTimeout' = resizeObserver[1]
    /\ resizeObserver' = <<-1>>
    /\ UNCHANGED <<connected, connections, columnsAttr, fillAttr,
                   fillLastAttr, balanceAttr, orphansAttr,
                   isSingleColumn, children,
                   clientWidth, css, styleColumns, styleGridColumns,
                   mutationObserver, staleTimeouts, unitResolver,
                   effectiveColumnsValue, lastCssProps, engineVars>>

\* handleResize(width)
handleResize(width) ==
    /\ layoutPass(<<width>>, clearCache(unitResolver), mutationObserver)
    /\ UNCHANGED <<connected, connections, columnsAttr, fillAttr,
                   fillLastAttr, balanceAttr, orphansAttr,
                   isSingleColumn, clientWidth,
                   css, styleColumns, resizeObserver, engineVars>>

\* The timer of the current closure expires.
ResizeTimeout ==
    /\ resizeTimeout # -1
    /\ handleResize(resizeTimeout)
    /\ resizeTimeout' = -1
    /\ UNCHANGED staleTimeouts

\* A timer set before the last disconnect expires.
StaleResizeTimeout ==
    \E w \in staleTimeouts :
        /\ handleResize(w)
        /\ staleTimeouts' = staleTimeouts \ {w}
        /\ UNCHANGED resizeTimeout

\* handleViewportResize: the listener is registered while connected.
ViewportResize ==
    /\ connected
    /\ layoutPass(null, clearCache(unitResolver), mutationObserver)
    /\ UNCHANGED <<connected, connections, columnsAttr, fillAttr,
                   fillLastAttr, balanceAttr, orphansAttr,
                   isSingleColumn, clientWidth,
                   css, styleColumns, resizeObserver, resizeTimeout,
                   staleTimeouts, engineVars>>

Next ==
    \/ Connect
    \/ Disconnect
    \/ SetColumns
    \/ SetFill
    \/ SetFillLast
    \/ AddChild
    \/ RemoveChild
    \/ SetDataSize
    \/ MutationCallback
    \/ ElementResized
    \/ ResizeObserverCallback
    \/ ResizeTimeout
    \/ StaleResizeTimeout
    \/ ViewportResize

Spec == InitComponent /\ [][Next]_vars

----------------------------------------------------------------------------
(* Claims about calculateRowDistribution, checked under SpecDistribution *)

\* C1: for every N >= 0 and M >= 1 the returned row sizes sum to exactly N
\* and every row size is between 1 and M; N = 0 gives the empty sequence.
C1_DistributionComplete ==
    pc = "distributed" =>
        /\ SumSeq(distribution) = itemCount
        /\ \A i \in 1..Len(distribution) : distribution[i] \in 1..maxColumns
        /\ (itemCount = 0 => distribution = <<>>)

C1_Witness ==
    /\ pc = "distributed" /\ itemCount = 10 /\ maxColumns = 3
    /\ Len(distribution) = 4

\* The candidate the claim describes, written from the claim: fullRows rows
\* of M, then the remaining k items shared by r rows as evenly as possible
\* (the first k mod r rows hold one item more).
EvenShare(k, r) == [i \in 1..r |-> (k \div r) + (IF i <= k % r THEN 1 ELSE 0)]

ClaimedCandidate(N, M, R, fullRows) ==
    [i \in 1..fullRows |-> M] \o EvenShare(N - fullRows * M, R - fullRows)

\* C2: for N > M >= 1 and R = ceil(N / M) the result is the candidate with
\* the largest fullRows in 0..R-1 whose last row holds at least 34% of M,
\* and so it has exactly R rows.
C2_LargestAcceptableFullRows ==
    (pc = "distributed" /\ itemCount > maxColumns) =>
        LET R == Ceil(itemCount, maxColumns)
            ok(fr) == 100 * Last(ClaimedCandidate(itemCount, maxColumns, R, fr))
                         >= 34 * maxColumns
        IN  /\ Len(distribution) = R
            /\ \E fr \in 0..(R - 1) :
                  /\ distribution = ClaimedCandidate(itemCount, maxColumns, R, fr)
                  /\ ok(fr)
                  /\ \A other \in (fr + 1)..(R - 1) : ~ok(other)

C2_Witness ==
    /\ pc = "distributed" /\ itemCount = 13 /\ maxColumns = 4
    /\ distribution = ClaimedCandidate(13, 4, 4, 2)
    /\ Len(distribution) = 4 /\ distribution[3] = 3 /\ distribution[4] = 2

\* C3: the worked values: (7,3) -> [3,2,2], (10,3) -> [3,3,2,2],
\* (13,4) -> [4,4,3,2], (4,3) -> [2,2], (5,3) -> [3,2].
C3_WorkedValues ==
    pc = "distributed" =>
        /\ (itemCount = 7 /\ maxColumns = 3) => distribution = <<3, 2, 2>>
        /\ (itemCount = 10 /\ maxColumns = 3) => distribution = <<3, 3, 2, 2>>
        /\ (itemCount = 13 /\ maxColumns = 4) => distribution = <<4, 4, 3, 2>>
        /\ (itemCount = 4 /\ maxColumns = 3) => distribution = <<2, 2>>
        /\ (itemCount = 5 /\ maxColumns = 3) => distribution = <<3, 2>>

C3_Witness ==
    pc = "distributed" /\ itemCount = 13 /\ maxColumns = 4
        /\ distribution = <<4, 4, 3, 2>>

\* C4: for N > M >= 1 every row, the last one included, holds at least 34%
\* of M items: no multi-row distribution ends in an under-filled orphan row.
C4_NoOrphanRow ==
    (pc = "distributed" /\ itemCount > maxColumns) =>
        \A i \in 1..Len(distribution) : 100 * distribution[i] >= 34 * maxColumns

\* 13 items in 12 columns: 12+1 is rejected and 7+6 is returned.
C4_Witness ==
    /\ pc = "distributed" /\ itemCount = 13 /\ maxColumns = 12
    /\ distribution = <<7, 6>>

----------------------------------------------------------------------------
(* Claims about the row builder and the pipeline, checked under SpecPipeline *)

\* The items of all rows, in row order.
ItemsOf(rs) == flatten(rs)

\* The spans calculateSpans returned for row r of rs.
SpansOfRow(rs, allSpans, r) ==
    LET offset == SumSeq([q \in 1..(r - 1) |-> Len(rs[q])])
    IN  SubSeq(allSpans, offset + 1, offset + Len(rs[r]))

SizesCapped == \A k \in 1..Len(sizes) : sizes[k] \in 1..maxColumns

\* C5: buildRows returns non-empty rows whose concatenation lists the item
\* indices 0..n-1 once each in increasing order, each item with its own
\* input size; an empty sequence gives no rows.
C5_RowsPartitionItems ==
    pc # "build" =>
        /\ \A r \in 1..Len(rows) : Len(rows[r]) > 0
        /\ ItemsOf(rows) = [k \in 1..Len(sizes) |->
                               [index |-> k - 1, size |-> sizes[k]]]
        /\ (Len(sizes) = 0 => rows = <<>>)

\* [1,2,1,1] in 3 columns: rows (0,1) and (2,3).
C5_Witness ==
    /\ pc = "unify" /\ sizes = <<1, 2, 1, 1>> /\ maxColumns = 3
    /\ Len(rows) = 2 /\ rows[2][1].index = 2

\* C6: with every size between 1 and M, no row has a unit total above M
\* (mixed sizes) and no row has more than M items (all sizes 1).
C6_NoRowExceedsColumns ==
    (pc # "build" /\ SizesCapped) =>
        \A r \in 1..Len(rows) :
            IF \A k \in 1..Len(sizes) : sizes[k] = 1
            THEN Len(rows[r]) <= maxColumns
            ELSE rowTotal(rows[r]) <= maxColumns

C6_Witness ==
    /\ pc = "unify" /\ sizes = <<2, 3, 3, 2>> /\ maxColumns = 5
    /\ Len(rows) = 2 /\ rowTotal(rows[1]) = 5 /\ rowTotal(rows[2]) = 5

\* C7: in the pipeline under fill = equal-extra with no fill-last override
\* (the component then passes its fillLast, equal-extra), for M in 1..12 and
\* sizes in 1..3 capped to M, the spans of every row sum to exactly the
\* grid resolution.
C7_PipelineRowsSumToGrid ==
    (/\ pc = "done" /\ Len(sizes) > 0 /\ SizesCapped
     /\ fillArg = "equal-extra" /\ fillLastArg = "equal-extra") =>
        \A r \in 1..Len(rows) :
            SumSeq(SpansOfRow(rows, spans, r)) = gridColumns

\* C8: calculateSpans(rows, G, 'equal-extra') returns spans that sum to
\* exactly G within each row, never more and never less.
C8_SpansSumToGrid ==
    (/\ pc = "done" /\ Len(rows) > 0
     /\ fillArg = "equal-extra" /\ fillLastArg = "undefined") =>
        \A r \in 1..Len(rows) :
            /\ SumSeq(SpansOfRow(rows, spans, r)) <= gridColumns
            /\ SumSeq(SpansOfRow(rows, spans, r)) >= gridColumns

----------------------------------------------------------------------------
(* Claims about the <smart-grid> element, checked under Spec *)

\* The last pass saw the children and attributes as they are now.
LayoutCurrent ==
    /\ connected
    /\ mutationObserver = <<{}>>
    /\ Len(children) > 0

\* The rows of the last pass.
LaidOutRows ==
    buildRows(itemSizes(children, effectiveColumnsValue),
              effectiveColumnsValue)

\* The span child k is rendered with: its inline grid-column span, and
\* without one the span of its data-size.
RenderedSpan(k) ==
    IF children[k].span # 0 THEN children[k].span
    ELSE parseSize(children[k].size, effectiveColumnsValue)

RenderedRowTotal(row) ==
    SumSeq([j \in 1..Len(row) |-> RenderedSpan(row[j].index + 1)])

\* C9: with fill = none and fill-last = equal-extra a layout pass expands
\* the items of the last row so that their spans sum to the grid
\* resolution, and leaves the items of every other row at their raw sizes.
C9_LastRowUnderFillLast ==
    (LayoutCurrent /\ fillAttr = "none" /\ fillLastAttr = "equal-extra") =>
        /\ styleGridColumns > 0
        /\ RenderedRowTotal(Last(LaidOutRows)) = styleGridColumns
        /\ \A r \in 1..(Len(LaidOutRows) - 1) :
             \A j \in 1..Len(LaidOutRows[r]) :
                RenderedSpan(LaidOutRows[r][j].index + 1)
                    = LaidOutRows[r][j].size

----------------------------------------------------------------------------
(* The columns attribute as text: the page writes any short string.         *)

MaxAttrLen == 3

AttrChars == {"0", "1", "3", "9", "-", "x", " "}

\* The attribute values tried; the empty text stands for a missing and for
\* an empty attribute alike, both are falsy in get columns().
AttrTexts == BoundedSeq(AttrChars, MaxAttrLen)

SetColumnsText ==
    \E c \in AttrTexts : attributeChangedCallback(c, fillAttr, fillLastAttr)

NextColumns == SetColumnsText

SpecColumns == InitComponent /\ [][NextColumns]_vars

\* A text that is a decimal integer from its first to its last character.
IsIntegerText(text) ==
    /\ text # <<>>
    /\ \/ \A i \in 1..Len(text) : text[i] \in DOMAIN Digits
       \/ /\ Len(text) > 1 /\ text[1] = "-"
          /\ \A i \in 2..Len(text) : text[i] \in DOMAIN Digits

Pow10(k) == IF k = 0 THEN 1 ELSE IF k = 1 THEN 10 ELSE IF k = 2 THEN 100
            ELSE IF k = 3 THEN 1000 ELSE 10000

\* The value of an integer text, by the place of each digit.
IntegerValue(text) ==
    LET first == IF text[1] = "-" THEN 2 ELSE 1
        places == [i \in first..Len(text) |->
                      Digits[text[i]] * Pow10(Len(text) - i)]
        magnitude == IF first > Len(text) THEN 0
                     ELSE LET RECURSIVE Sum(_)
                              Sum(i) == IF i > Len(text) THEN 0
                                        ELSE places[i] + Sum(i + 1)
                          IN  Sum(first)
    IN  IF text[1] = "-" THEN 0 - magnitude ELSE magnitude

\* A text in which no number can be read: after the leading blanks and an
\* optional sign there is no digit.
NonNumericText(text) ==
    ~ \E i \in 1..Len(text) :
        /\ text[i] \in DOMAIN Digits
        /\ \/ \A j \in 1..(i - 1) : text[j] = " "
           \/ /\ i > 1 /\ text[i - 1] \in {"-", "+"}
              /\ \A j \in 1..(i - 2) : text[j] = " "

\* C11: the columns value of the modern component is always an integer in
\* 1..12: a missing, empty or non-numeric attribute gives 3, an integer
\* below 1 gives 1, an integer above 12 gives 12, and an integer in 1..12
\* gives itself.
C11_ColumnsInRange ==
    LET value == columns(columnsAttr)
    IN  /\ value \in 1..MAX_COLUMNS
        /\ NonNumericText(columnsAttr) => value = DEFAULT_COLUMNS
        /\ IsIntegerText(columnsAttr) =>
              /\ IntegerValue(columnsAttr) < 1 => value = 1
              /\ IntegerValue(columnsAttr) > MAX_COLUMNS => value = MAX_COLUMNS
              /\ IntegerValue(columnsAttr) \in 1..MAX_COLUMNS =>
                    value = IntegerValue(columnsAttr)
        /\ styleColumns \in {0, value}

\* columns="13" was set and --columns is 12
C11_Witness ==
    /\ columnsAttr = <<"1", "3">>
    /\ styleColumns = MAX_COLUMNS

----------------------------------------------------------------------------
(* The size classifiers: parseSize of the modern component and              *)
(* resolveDataSize of the legacy component, each called on one element.     *)

SEMANTIC_SIZES == [small |-> 1, medium |-> 2, large |-> 3]

\* value !== undefined && value in SEMANTIC_SIZES
isSemanticSize(value) == value # "null" /\ value \in DOMAIN SEMANTIC_SIZES

\* The data-size values tried, "null" for an element without the attribute,
\* each with its characters.
characters ==
    [null |-> <<>>, empty |-> <<>>,
     small |-> <<"s", "m", "a", "l", "l">>,
     medium |-> <<"m", "e", "d", "i", "u", "m">>,
     large |-> <<"l", "a", "r", "g", "e">>,
     xl |-> <<"x", "l">>,
     zero |-> <<"0">>, minusTwo |-> <<"-", "2">>,
     one |-> <<"1">>, two |-> <<"2">>, four |-> <<"4">>,
     fourteen |-> <<"1", "4">>]

DataSizeTexts == DOMAIN characters

\* dataset.size as the key SIZE_UNITS and SEMANTIC_SIZES are indexed with
datasetSize(size) == IF size = "empty" THEN "" ELSE size

\* resolveDataSize of the legacy component
resolveDataSize(size, cols) ==
    IF size \in {"null", "empty"} THEN 1
    ELSE IF isSemanticSize(datasetSize(size))
    THEN Min(SEMANTIC_SIZES[datasetSize(size)], cols)
    ELSE LET numeric == parseInt(characters[size])
         IN  IF numeric.nan THEN 1 ELSE Min(numeric.value, cols)

InitClassifier ==
    /\ pc = "classify"
    /\ maxColumns \in 1..MaxColumnsArg
    /\ \E size \in DataSizeTexts : children = <<[size |-> size, span |-> 0]>>
    /\ sizes = <<>>
    /\ itemCount = 1 /\ distribution = <<>> /\ rows = <<>> /\ gridColumns = 0
    /\ fillArg = "equal-extra" /\ fillLastArg = "undefined" /\ spans = <<>>
    /\ connected = FALSE /\ connections = 0
    /\ columnsAttr = null /\ fillAttr = "null" /\ fillLastAttr = "null"
    /\ balanceAttr = "null" /\ orphansAttr = "null"
    /\ isSingleColumn = FALSE
    /\ styleColumns = 0 /\ styleGridColumns = 0
    /\ mutationObserver = null /\ resizeObserver = null
    /\ resizeTimeout = -1 /\ staleTimeouts = {}
    /\ unitResolver = null /\ effectiveColumnsValue = 0
    /\ lastCssProps = null /\ clientWidth = 0 /\ css = NoMinWidthStyle

\* parseSize(element, maxColumns)
ParseSize ==
    /\ pc = "classify"
    /\ sizes' = <<parseSize(datasetSize(children[1].size), maxColumns)>>
    /\ pc' = "parsed"
    /\ UNCHANGED <<itemCount, maxColumns, distribution, rows, gridColumns,
                   fillArg, fillLastArg, spans, componentVars>>

\* this.resolveDataSize(item, maxColumns)
ResolveDataSize ==
    /\ pc = "classify"
    /\ sizes' = <<resolveDataSize(children[1].size, maxColumns)>>
    /\ pc' = "resolved"
    /\ UNCHANGED <<itemCount, maxColumns, distribution, rows, gridColumns,
                   fillArg, fillLastArg, spans, componentVars>>

NextClassifier == ParseSize \/ ResolveDataSize

SpecClassifier == InitClassifier /\ [][NextClassifier]_vars

\* The element a classifier was called on carries this data-size.
Classified == pc \in {"parsed", "resolved"}

sizeSpec == characters[children[1].size]

\* C12: for every operative maximum M >= 1 both classifiers resolve a
\* numeric data-size greater than M to exactly M, and resolve no data-size,
\* semantic or numeric, to more than M.
C12_NumericSizeCappedToMaximum ==
    Classified =>
        /\ sizes[1] <= maxColumns
        /\ (IsIntegerText(sizeSpec) /\ IntegerValue(sizeSpec) > maxColumns)
              => sizes[1] = maxColumns

\* C13: both classifiers resolve a missing or unrecognized data-size, an
\* integer that is not positive included, to exactly 1, so every resolved
\* unit size is an integer of at least 1.
C13_UnrecognizedSizeIsOne ==
    Classified =>
        /\ sizes[1] \in Nat /\ sizes[1] >= 1
        /\ ( \/ NonNumericText(sizeSpec)
                /\ children[1].size \notin DOMAIN SEMANTIC_SIZES
             \/ IsIntegerText(sizeSpec) /\ IntegerValue(sizeSpec) < 1 )
              => sizes[1] = 1

----------------------------------------------------------------------------
(* Claims about the layout pass of the component, checked under Spec *)

\* C14: after every layout pass made with a positive container width,
\* whatever the item list (an empty one included), the minimum widths and
\* the gap, effectiveColumns is at least 1 and at most the columns value.
\* While the element is connected its width is positive and every pass since
\* connectedCallback was made with it.
C14_EffectiveColumnsInRange ==
    connected => effectiveColumnsValue \in 1..columns(columnsAttr)

\* Every trigger has been served: no mutation record, no resize entry and no
\* resize timer is pending, so the last pass read the inputs as they are.
LayoutSettled ==
    /\ connected
    /\ mutationObserver = <<{}>>
    /\ resizeObserver = <<-1>>
    /\ resizeTimeout = -1

\* The output a pass leaves, as the page sees it.
LayoutOutput(res) ==
    <<res.gridColumns, res.items, res.effectiveColumnsValue>>

\* The widths the last pass can have been given: the element's width, or,
\* once the element has been connected before, the width held by a timer of
\* an earlier connection.
LastPassWidths ==
    IF connections <= 1 THEN {clientWidth} ELSE {clientWidth} \cup Widths

\* C15: a second layout pass on unchanged items, sizes, columns, fill,
\* fill-last, width and styles leaves --grid-columns, every item's span and
\* effectiveColumns as the first pass left them, and they are what a pass
\* gives on the same inputs with no layout applied before (no inline span,
\* an empty resolver cache).
C15_LayoutPassIdempotent ==
    LayoutSettled =>
        \E width \in LastPassWidths :
            /\ LayoutOutput(applyLayout(<<width>>, clientWidth, children,
                                        columnsAttr, fillAttr, fillLastAttr,
                                        css, unitResolver, lastCssProps))
                 = <<styleGridColumns, children, effectiveColumnsValue>>
            /\ LayoutOutput(applyLayout(<<width>>, clientWidth,
                                        clearSpans(children), columnsAttr,
                                        fillAttr, fillLastAttr, css,
                                        <<emptyCache>>, null))
                 = <<styleGridColumns, children, effectiveColumnsValue>>

\* Three children laid out in two columns after other layouts: the first is
\* large and spans the row, the others share the second row.
C15_Witness ==
    /\ LayoutSettled
    /\ columnsAttr = <<"2">>
    /\ Len(children) = 3
    /\ children[1].size = "large" /\ children[1].span = 2
    /\ children[2].span = 0 /\ children[3].span = 0
    /\ clientWidth = 120

----------------------------------------------------------------------------
(* distribute.ts: calculateGridConfig, and the uniform pipeline *)

RECURSIVE gcd(_, _)
gcd(a, b) == IF b = 0 THEN a ELSE gcd(b, a % b)

lcm(a, b) == (a * b) \div gcd(a, b)

\* numbers.reduce((acc, n) => lcm(acc, n), 1)
RECURSIVE lcmArrayFrom(_, _)
lcmArrayFrom(acc, numbers) ==
    IF numbers = <<>> THEN acc
    ELSE lcmArrayFrom(lcm(acc, Head(numbers)), Tail(numbers))

lcmArray(numbers) == lcmArrayFrom(1, numbers)

\* [...new Set(distribution)]: each value once, in order of first occurrence
uniqueSizes(dist) ==
    LET firsts == {i \in 1..Len(dist) :
                      \A j \in 1..(i - 1) : dist[j] # dist[i]}
        RECURSIVE Take(_)
        Take(i) == IF i > Len(dist) THEN <<>>
                   ELSE IF i \in firsts THEN <<dist[i]>> \o Take(i + 1)
                   ELSE Take(i + 1)
    IN  Take(1)

\* The spans of calculateGridConfig: gridColumns / rowSize for each item of
\* each row; the quotient is that of the division when it is exact, and the
\* claim about it states the exactness.
RECURSIVE configSpans(_, _)
configSpans(dist, cols) ==
    IF dist = <<>> THEN <<>>
    ELSE [k \in 1..Head(dist) |-> cols \div Head(dist)]
             \o configSpans(Tail(dist), cols)

calculateGridConfig(n, cols) ==
    LET dist == calculateRowDistribution(n, cols)
    IN  IF Len(dist) = 0 THEN [gridColumns |-> cols, spans |-> <<>>]
        ELSE [gridColumns |-> lcmArray(uniqueSizes(dist)),
              spans |-> configSpans(dist, lcmArray(uniqueSizes(dist)))]

\* N items of one unit each, for the modern pipeline and for
\* calculateGridConfig.
InitUniform ==
    /\ pc = "build"
    /\ itemCount \in 0..MaxItemCount
    /\ sizes = [k \in 1..itemCount |-> 1]
    /\ maxColumns \in 1..MaxColumnsArg
    /\ distribution = <<>> /\ rows = <<>> /\ gridColumns = 0
    /\ fillArg = "equal-extra" /\ fillLastArg = "undefined" /\ spans = <<>>
    /\ ElementCreated /\ clientWidth = 0 /\ css = NoMinWidthStyle

GridConfig ==
    /\ pc = "build"
    /\ distribution' = calculateRowDistribution(itemCount, maxColumns)
    /\ \E config \in {calculateGridConfig(itemCount, maxColumns)} :
         /\ gridColumns' = config.gridColumns
         /\ spans' = config.spans
    /\ pc' = "configured"
    /\ UNCHANGED <<itemCount, maxColumns, sizes, rows, fillArg, fillLastArg,
                   componentVars>>

NextUniform == BuildRows \/ UnifyGrid \/ CalculateSpans \/ GridConfig

SpecUniform == InitUniform /\ [][NextUniform]_vars

\* g is the least positive integer every member of lengths divides.
IsLeastCommonMultiple(g, lengths) ==
    /\ g >= 1
    /\ \A n \in lengths : g % n = 0
    /\ \A m \in 1..(g - 1) : \E n \in lengths : m % n # 0

RowLengths == [r \in 1..Len(rows) |-> Len(rows[r])]

\* The length of the row item k (from 1) is in, rows having these lengths.
RECURSIVE LengthOfRowOf(_, _)
LengthOfRowOf(k, lengths) ==
    IF k <= Head(lengths) THEN Head(lengths)
    ELSE LengthOfRowOf(k - Head(lengths), Tail(lengths))

\* C16: for N >= 1 items of one unit and M >= 1 the grid resolution, of
\* calculateGridColumns on the rows of buildRows and of calculateGridConfig,
\* is the least common multiple of the row lengths, so each item's span
\* gridResolution / rowLength is an integer; for lengths [3,2,2] it is 6.
C16_GridResolutionIsLcm ==
    /\ (pc \in {"spans", "done"} /\ itemCount >= 1) =>
          /\ IsLeastCommonMultiple(gridColumns,
                                   {RowLengths[r] : r \in 1..Len(rows)})
          /\ RowLengths = <<3, 2, 2>> => gridColumns = 6
    /\ (pc = "done" /\ fillArg = "equal-extra"
           /\ fillLastArg \in {"equal-extra", "undefined"}) =>
          \A k \in 1..itemCount :
              spans[k] * LengthOfRowOf(k, RowLengths) = gridColumns
    /\ (pc = "configured" /\ itemCount >= 1) =>
          /\ IsLeastCommonMultiple(gridColumns,
                                   {distribution[r] :
                                       r \in 1..Len(distribution)})
          /\ distribution = <<3, 2, 2>> => gridColumns = 6
          /\ Len(spans) = itemCount
          /\ \A k \in 1..itemCount :
                spans[k] * LengthOfRowOf(k, distribution) = gridColumns

\* Seven items in three columns: rows of 3, 2 and 2 on a grid of 6
C16_Witness ==
    /\ pc = "done" /\ itemCount = 7 /\ maxColumns = 3
    /\ RowLengths = <<3, 2, 2>>
    /\ gridColumns = 6
    /\ spans = <<2, 2, 2, 3, 3, 3, 3>>

----------------------------------------------------------------------------
(* The element moved within the document: it is disconnected and connected  *)
(* again while a resize timer may be pending.  The element is parsed with   *)
(* two children.                                                            *)

MaxReconnections == 2

InitReconnect ==
    /\ EngineIdle
    /\ connected = FALSE /\ connections = 0
    /\ columnsAttr = null /\ fillAttr = "null" /\ fillLastAttr = "null"
    /\ balanceAttr = "null" /\ orphansAttr = "null"
    /\ isSingleColumn = FALSE
    /\ children = <<[size |-> "large", span |-> 0],
                    [size |-> "null", span |-> 0]>>
    /\ styleColumns = 0 /\ styleGridColumns = 0
    /\ mutationObserver = null /\ resizeObserver = null
    /\ resizeTimeout = -1 /\ staleTimeouts = {}
    /\ unitResolver = null
    /\ effectiveColumnsValue = 0
    /\ lastCssProps = null
    /\ clientWidth \in Widths
    /\ css \in {NoMinWidthStyle, MinWidthStyle}

Reconnect == connections < MaxReconnections /\ connectedCallback

NextReconnect ==
    \/ Reconnect
    \/ Disconnect
    \/ MutationCallback
    \/ ElementResized
    \/ ResizeObserverCallback
    \/ ResizeTimeout
    \/ StaleResizeTimeout

SpecReconnect == InitReconnect /\ [][NextReconnect]_vars

\* The resize passes a timer is pending for
PendingResizePasses ==
    Cardinality(staleTimeouts) + (IF resizeTimeout = -1 THEN 0 ELSE 1)

\* C17: resize notifications are debounced: a notification cancels the
\* resize pass pending from an earlier one, so at any moment at most one
\* resize pass is pending, and once every notification is delivered the
\* pending pass carries the width the last notification reported.
C17_ResizeDebounced ==
    /\ PendingResizePasses <= 1
    /\ (resizeTimeout # -1 /\ resizeObserver = <<-1>>) =>
          resizeTimeout = clientWidth

----------------------------------------------------------------------------
(* The element with the page changing its children, its width left alone.   *)
(* The MutationObserver callback is a microtask: the browser runs it         *)
(* whenever records are queued, so it is taken under weak fairness.          *)

NextChildren ==
    \/ Connect
    \/ Disconnect
    \/ AddChild
    \/ RemoveChild
    \/ SetDataSize
    \/ MutationCallback

SpecChildren ==
    InitComponent /\ [][NextChildren]_vars /\ WF_vars(MutationCallback)

\* --grid-columns and the inline spans are those a pass computes from the
\* children as they are, in the element as it is.
AppliedLayoutCurrent ==
    \E res \in {applyLayout(null, clientWidth, clearSpans(children),
                              columnsAttr, fillAttr, fillLastAttr, css,
                              <<emptyCache>>, null)} :
        /\ res.gridColumns = styleGridColumns
        /\ res.items = children

\* A record of a change of the children is queued.
ChildChangePending == connected /\ mutationObserver # <<{}>>

\* C18: while the component is connected, every addition or removal of a
\* child and every change of a child's data-size is eventually followed by
\* a layout pass, and once that pass has run --grid-columns and the spans
\* are the ones computed from the current children and their sizes.
C18_ChildChangesLaidOut ==
    /\ [][MutationCallback => AppliedLayoutCurrent']_vars
    /\ ChildChangePending ~>
          ( \/ ~connected
            \/ /\ "childList" \notin mutationObserver[1]
               /\ AppliedLayoutCurrent )

\* A large child was added after a plain one and the pass has run: the grid
\* has three columns and both children span all of them.
C18_Witness ==
    /\ connected
    /\ mutationObserver = <<{}>>
    /\ Len(children) = 2
    /\ children[1].size = "null" /\ children[2].size = "large"
    /\ columnsAttr = null
    /\ styleGridColumns = 3
    /\ children[1].span = 3 /\ children[2].span = 3

----------------------------------------------------------------------------
(* The legacy component: applyLayout with balance="expand" or "preserve" *)

MaxLegacyItems == 7     \* children of the legacy element

\* get columns() of the legacy component: at least 1, no upper limit
legacyColumns(attr) ==
    LET parsed == IF attr # null THEN parseInt(attr) ELSE Number(3)
    IN  Max(1, IF parsed.nan THEN 3 ELSE parsed.value)

\* get balance()
balance(attr) == IF attr \in {"expand", "preserve"} THEN attr ELSE "auto"

\* item.dataset.size is truthy
hasDataSize(item) == item.size \notin {"null", "empty"}

\* clearItemSpans
clearItemSpans(items) ==
    [k \in 1..Len(items) |-> [items[k] EXCEPT !.span = 0]]

\* setGridColumns(value): the inline --grid-columns, 0 when removed. null is
\* passed as 0, which the code treats as it treats null.
setGridColumns(value) == IF value > 0 THEN value ELSE 0

orphanSpanAlwaysFullRow(mode, lcmValue, maxCols, orphanCount) ==
    lcmValue \div maxCols

\* const orphanSpan of applyBalanceMode; both quotients are exact
orphanSpanFor(mode, lcmValue, maxCols, orphanCount) ==
    IF mode = "expand" THEN lcmValue \div orphanCount
    ELSE lcmValue \div maxCols

\* applyBalanceMode(items): this.gridColumns, the inline --grid-columns and
\* the items with the spans it writes. The element's --max-columns and
\* --computed-columns are not read by any pass and are left out.
applyBalanceMode(items, cAttr, bAttr) ==
    LET maxCols == legacyColumns(cAttr)
        itemsWithoutSize == {k \in 1..Len(items) : ~hasDataSize(items[k])}
        count == Cardinality(itemsWithoutSize)
        orphanCount == count % maxCols
        fullRowCount == count \div maxCols
        lcmValue == (maxCols * orphanCount) \div gcd(maxCols, orphanCount)
        fullRowSpan == lcmValue \div maxCols
        orphanSpan == orphanSpanFor(balance(bAttr), lcmValue, maxCols,
                                    orphanCount)
        regularItemIndex(k) == Cardinality({j \in itemsWithoutSize : j < k})
        isOrphan(k) == regularItemIndex(k) >= fullRowCount * maxCols
    IN  IF count = 0
        THEN [gridColumns |-> 0, styleGridColumns |-> setGridColumns(0),
              children |-> items]
        ELSE IF orphanCount = 0
        THEN [gridColumns |-> 0, styleGridColumns |-> setGridColumns(0),
              children |-> clearItemSpans(items)]
        ELSE [gridColumns |-> lcmValue,
              styleGridColumns |-> setGridColumns(lcmValue),
              children |->
                  [k \in 1..Len(items) |->
                      IF hasDataSize(items[k]) THEN items[k]
                      ELSE [items[k] EXCEPT
                               !.span = IF isOrphan(k) THEN orphanSpan
                                        ELSE fullRowSpan]]]

\* applyLayout() of the legacy component when balance is "expand" or
\* "preserve": the empty list, or applyBalanceMode
legacyApplyLayout(items, cAttr, bAttr) ==
    IF Len(items) = 0
    THEN [gridColumns |-> 0, styleGridColumns |-> setGridColumns(0),
          children |-> items]
    ELSE applyBalanceMode(items, cAttr, bAttr)

LegacyColumnTexts == {null, <<"2">>, <<"3">>, <<"4">>, <<"6">>}

LegacySizes == {"null", "large"}

\* A legacy element created with balance="expand" or "preserve", to which
\* children were appended while it was in no document: no pass has seen them.
InitBalance ==
    /\ pc = "created"
    /\ balanceAttr \in {"expand", "preserve"}
    /\ orphansAttr = "null" /\ isSingleColumn = FALSE
    /\ columnsAttr = null
    /\ children \in BoundedSeq({[size |-> s, span |-> 0] : s \in LegacySizes},
                               MaxLegacyItems)
    /\ itemCount = 0 /\ maxColumns = 1 /\ distribution = <<>>
    /\ sizes = <<>> /\ rows = <<>> /\ gridColumns = 0
    /\ fillArg = "equal-extra" /\ fillLastArg = "undefined" /\ spans = <<>>
    /\ connected = FALSE /\ connections = 0
    /\ fillAttr = "null" /\ fillLastAttr = "null"
    /\ styleColumns = 0 /\ styleGridColumns = 0
    /\ mutationObserver = null /\ resizeObserver = null
    /\ resizeTimeout = -1 /\ staleTimeouts = {}
    /\ unitResolver = null /\ effectiveColumnsValue = 0
    /\ lastCssProps = null /\ clientWidth = 0 /\ css = NoMinWidthStyle

\* attributeChangedCallback of the legacy component, after the attributes
\* became c and b
legacyAttributeChangedCallback(c, b) ==
    /\ columnsAttr' = c /\ balanceAttr' = b
    /\ \E res \in {legacyApplyLayout(children, c, b)} :
         /\ gridColumns' = res.gridColumns
         /\ styleGridColumns' = res.styleGridColumns
         /\ children' = res.children
    /\ pc' = "laid out"
    /\ UNCHANGED <<itemCount, maxColumns, distribution, sizes, rows, fillArg,
                   fillLastArg, spans, connected, connections, fillAttr,
                   orphansAttr, isSingleColumn,
                   fillLastAttr, clientWidth, css, styleColumns,
                   mutationObserver, resizeObserver, resizeTimeout,
                   staleTimeouts, unitResolver, effectiveColumnsValue,
                   lastCssProps>>

\* setAttribute('columns', c)
LegacySetColumns ==
    \E c \in LegacyColumnTexts : legacyAttributeChangedCallback(c, balanceAttr)

\* setAttribute('balance', b)
LegacySetBalance ==
    \E b \in {"expand", "preserve"} :
        legacyAttributeChangedCallback(columnsAttr, b)

NextBalance == LegacySetColumns \/ LegacySetBalance

SpecBalance == InitBalance /\ [][NextBalance]_vars

\* The positions of the children without data-size, in document order
RegularItems == {k \in 1..Len(children) : ~hasDataSize(children[k])}

\* How many children without data-size come before child k
RegularIndex(k) == Cardinality({j \in RegularItems : j < k})

\* g is the least positive common multiple of a and b
IsLcmOf(g, a, b) ==
    /\ g > 0 /\ g % a = 0 /\ g % b = 0
    /\ \A h \in 1..(g - 1) : h % a # 0 \/ h % b # 0

\* C19: after a pass of the legacy component with balance expand or preserve,
\* N children without data-size, M columns and r = N mod M > 0, the grid
\* resolution is lcm(M, r), each child of a full row spans lcm/M, and each of
\* the r orphans spans lcm/r under expand and lcm/M under preserve.
C19_BalanceModeSpans ==
    LET N == Cardinality(RegularItems)
        M == legacyColumns(columnsAttr)
        r == N % M
        g == styleGridColumns
    IN  (pc = "laid out" /\ r > 0) =>
            /\ IsLcmOf(g, M, r)
            /\ gridColumns = g
            /\ \A k \in RegularItems :
                 IF RegularIndex(k) < N - r
                 THEN children[k].span * M = g
                 ELSE IF balanceAttr = "expand"
                 THEN children[k].span * r = g
                 ELSE children[k].span * M = g
            /\ balanceAttr = "expand" =>
                 SumSeq([k \in 1..Len(children) |->
                            IF k \in RegularItems /\ RegularIndex(k) >= N - r
                            THEN children[k].span ELSE 0]) = g

\* Five children without data-size in three columns under expand: the three
\* of the full row span 2 of 6, the two orphans span 3.
C19_Witness ==
    /\ pc = "laid out"
    /\ balanceAttr = "expand"
    /\ columnsAttr = <<"3">>
    /\ Len(children) = 5
    /\ \A k \in 1..5 : children[k].size = "null"
    /\ styleGridColumns = 6
    /\ [k \in 1..5 |-> children[k].span] = <<2, 2, 2, 3, 3>>

----------------------------------------------------------------------------
(* The largest-remainder distribution of equal-extra *)

\* floor(exact) of item j of row r, exact = size * G / rowTotal
FloorOfExact(r, j) == (rows[r][j].size * gridColumns) \div rowTotal(rows[r])

\* The fractional part of exact, as a numerator over the row's total
FractionOfExact(r, j) == (rows[r][j].size * gridColumns) % rowTotal(rows[r])

\* Row r has its spans by the largest-remainder method: floor(exact) each,
\* and one more for exactly the `remainder` items with the largest
\* fractional part, the earlier item first among equal fractional parts.
LargestRemainderRow(r) ==
    LET items == 1..Len(rows[r])
        given == SpansOfRow(rows, spans, r)
        remainder == gridColumns
                       - SumSeq([j \in items |-> FloorOfExact(r, j)])
        extra == {j \in items : given[j] = FloorOfExact(r, j) + 1}
    IN  /\ \A j \in items \ extra : given[j] = FloorOfExact(r, j)
        /\ Cardinality(extra) = remainder
        /\ \A j \in extra : \A k \in items \ extra :
             \/ FractionOfExact(r, j) > FractionOfExact(r, k)
             \/ FractionOfExact(r, j) = FractionOfExact(r, k) /\ j < k

\* C20: under equal-extra, calculateSpans gives every row floor(exact_i) + 1
\* for exactly the `remainder` items with the largest fractional part of
\* exact_i = size_i * G / rowTotal (the earlier item first among equals) and
\* floor(exact_i) for the others, remainder being G minus the sum of the
\* floors.
C20_LargestRemainderDistribution ==
    (/\ pc = "done" /\ Len(rows) > 0
     /\ fillArg = "equal-extra"
     /\ fillLastArg \in {"undefined", "equal-extra"}) =>
        \A r \in 1..Len(rows) :
            rowTotal(rows[r]) > 0 => LargestRemainderRow(r)

----------------------------------------------------------------------------
(* fill-last = none under fill = equal-extra *)

\* C21: with fill = equal-extra and fill-last = none, for the rows buildRows
\* makes of sizes 1..3 capped to M and the grid resolution
\* calculateGridColumns gives them, the spans of the last row sum to at most
\* the grid resolution.
C21_LastRowNeverOverflows ==
    (/\ pc = "done" /\ Len(sizes) > 0 /\ SizesCapped
     /\ fillArg = "equal-extra" /\ fillLastArg = "none") =>
        SumSeq(SpansOfRow(rows, spans, Len(rows))) <= gridColumns

----------------------------------------------------------------------------
(* The element under changing styles: the computed style and the viewport  *)
(* change through style sheets, media queries and the window, which tell   *)
(* the element nothing.                                                     *)

\* rem lengths resolve against a root font size of 20px
LargeRootStyle == [MinWidthStyle EXCEPT !.rootFontSize = 20]

\* A minimum width for each tier; per unit, small asks for the most
TierStyle ==
    [NoMinWidthStyle EXCEPT !.small = [value |-> 100, unit |-> "px"],
                            !.medium = [value |-> 12, unit |-> "em"],
                            !.large = [value |-> 150, unit |-> "px"]]

\* A minimum width for the large tier only, in viewport units
LargeOnlyStyle ==
    [NoMinWidthStyle EXCEPT !.large = [value |-> 30, unit |-> "vw"]]

NarrowViewportStyle == [LargeOnlyStyle EXCEPT !.viewportWidth = 500]

StyleSheets == {NoMinWidthStyle, MinWidthStyle, LargeRootStyle, TierStyle,
                LargeOnlyStyle, NarrowViewportStyle}

StyledSizes == {"null", "medium", "large"}

\* The element as parsed from a document: one or two children, no attribute,
\* not yet connected.
InitStyles ==
    /\ EngineIdle
    /\ connected = FALSE /\ connections = 0
    /\ columnsAttr = null /\ fillAttr = "null" /\ fillLastAttr = "null"
    /\ balanceAttr = "null" /\ orphansAttr = "null"
    /\ isSingleColumn = FALSE
    /\ children \in {c \in BoundedSeq({[size |-> z, span |-> 0] :
                                          z \in StyledSizes}, 2) :
                        Len(c) > 0}
    /\ styleColumns = 0 /\ styleGridColumns = 0
    /\ mutationObserver = null /\ resizeObserver = null
    /\ resizeTimeout = -1 /\ staleTimeouts = {}
    /\ unitResolver = null
    /\ effectiveColumnsValue = 0
    /\ lastCssProps = null
    /\ clientWidth \in Widths
    /\ css \in StyleSheets

\* A style sheet, a media query or the window changes what getComputedStyle
\* and window.innerWidth give; no callback of the element runs.
StyleChanged ==
    /\ \E style \in StyleSheets \ {css} : css' = style
    /\ UNCHANGED <<connected, connections, columnsAttr, fillAttr,
                   fillLastAttr, balanceAttr, orphansAttr,
                   isSingleColumn, children, clientWidth,
                   styleColumns, styleGridColumns, mutationObserver,
                   resizeObserver, resizeTimeout, staleTimeouts,
                   unitResolver, effectiveColumnsValue, lastCssProps,
                   engineVars>>

NextStyles ==
    \/ Connect
    \/ Disconnect
    \/ StyleChanged
    \/ SetColumns
    \/ SetDataSize
    \/ MutationCallback
    \/ ElementResized
    \/ ResizeObserverCallback
    \/ ResizeTimeout
    \/ ViewportResize

SpecStyles == InitStyles /\ [][NextStyles]_vars

\* The unit weight of each size tier
TierWeight == [small |-> 1, medium |-> 2, large |-> 3]

\* The size tiers present among the children; a child without data-size is
\* small.
PresentTiers ==
    {IF children[k].size = "null" THEN "small" ELSE children[k].size :
        k \in 1..Len(children)}

\* The minimum width of a tier per unit, resolved afresh under the current
\* style
PerUnitWidth(tier) ==
    LET px == resolveToPixels(css[tier], css)
    IN  Frac(px.n, px.d * TierWeight[tier])

\* The greatest per-unit minimum width among tiers, 0 for no tier
MaxPerUnitWidth(tiers) ==
    IF tiers = {} THEN Frac(0, 1)
    ELSE CHOOSE p \in {PerUnitWidth(t) : t \in tiers} :
             \A q \in {PerUnitWidth(t) : t \in tiers} : ~FracLess(p, q)

\* The gap in px, resolved afresh under the current style
GapWidth ==
    IF css.gap # NoExpr THEN resolveToPixels(css.gap, css)
    ELSE IF css.computedColumnGap < 0 THEN Frac(0, 1)
    ELSE Frac(css.computedColumnGap, 1)

\* clamp(floor((W + gap) / (p + gap)), 1, columns), for p above 0
ClampedFit(W, p) ==
    LET fit == ((W * GapWidth.d + GapWidth.n) * p.d)
                  \div (p.n * GapWidth.d + GapWidth.n * p.d)
    IN  Min(Max(1, fit), columns(columnsAttr))

\* The effective column count a pass at width W takes in the current state
EffectiveColumnsAt(W) ==
    calculateEffectiveColumns(W, children, columns(columnsAttr), css,
                              unitResolver, lastCssProps).columns

\* The element is connected and a minimum width is configured.
MinWidthConfigured == unitResolver # null /\ getMinWidthConfig(css) # null

EffectivePassAt(W) ==
    calculateEffectiveColumns(W, children, columns(columnsAttr), css,
                              unitResolver, lastCssProps)

\* The length expressions of the current configuration
ConfiguredLengths == {css.small, css.medium, css.large, css.gap} \ {NoExpr}

----------------------------------------------------------------------------
(* The legacy component: fixed-grid mode, applyFixedGridWithSizes.  Items  *)
(* are numbered from 1; a span of 0 is an item without inline grid-column. *)

\* get orphans()
orphans(attr) == IF attr = "fixed" THEN "fixed" ELSE "expand"

\* this.isSemanticSize(item.dataset.size)
isSemanticItem(item) ==
    item.size # "null" /\ isSemanticSize(datasetSize(item.size))

\* The loop that builds the rows: the item positions of each row.
RECURSIVE fixedRowsFrom(_, _, _, _, _)
fixedRowsFrom(itemSizeList, maxCols, index, currentRow, currentRowWidth) ==
    IF index > Len(itemSizeList)
    THEN IF Len(currentRow) > 0 THEN <<currentRow>> ELSE <<>>
    ELSE IF currentRowWidth + itemSizeList[index] > maxCols /\ Len(currentRow) > 0
    THEN <<currentRow>>
           \o fixedRowsFrom(itemSizeList, maxCols, index + 1, <<index>>,
                            itemSizeList[index])
    ELSE fixedRowsFrom(itemSizeList, maxCols, index + 1,
                       Append(currentRow, index),
                       currentRowWidth + itemSizeList[index])

\* Math.round(proportion * remainingSpace), proportion = size / total
proportionalExtra(size, total, remainingSpace) ==
    (2 * size * remainingSpace + total) \div (2 * total)

\* What is written to style.gridColumn of each item of one row, by position
\* in the row: <<span>>, or null for an item that is not written to.
fixedRowSpans(rowIndices, items, itemSizeList, maxCols, oAttr) ==
    LET n == Len(rowIndices)
        rowWidth == SumSeq([j \in 1..n |-> itemSizeList[rowIndices[j]]])
        remainingSpace == maxCols - rowWidth
        expandable == {j \in 1..n : ~hasDataSize(items[rowIndices[j]])}
        semantic == {j \in 1..n : isSemanticItem(items[rowIndices[j]])}
        base(j) == itemSizeList[rowIndices[j]]
        \* size-less items share the remaining space
        extraPerItem == remainingSpace \div Cardinality(expandable)
        leftover == remainingSpace % Cardinality(expandable)
        rank(j) == Cardinality({i \in expandable : i < j})
        \* semantic items share it by their sizes
        totalSemanticSize ==
            SumSeq([j \in 1..n |-> IF j \in semantic THEN base(j) ELSE 0])
        extra(j) == proportionalExtra(base(j), totalSemanticSize,
                                      remainingSpace)
        distributed(j) ==
            SumSeq([i \in 1..(j - 1) |->
                       IF i \in semantic THEN extra(i) ELSE 0])
    IN  IF remainingSpace > 0 /\ orphans(oAttr) = "expand"
        THEN IF expandable # {}
             THEN [j \in 1..n |->
                     IF j \in expandable
                     THEN <<base(j) + extraPerItem
                              + (IF rank(j) < leftover THEN 1 ELSE 0)>>
                     ELSE IF j \in semantic THEN null ELSE <<base(j)>>]
             ELSE IF semantic # {}
             THEN [j \in 1..n |->
                     IF j \notin semantic THEN <<base(j)>>
                     ELSE IF j = n
                     THEN <<base(j) + remainingSpace - distributed(j)>>
                     ELSE <<base(j) + extra(j)>>]
             ELSE [j \in 1..n |-> <<base(j)>>]
        ELSE [j \in 1..n |-> IF j \in semantic THEN null ELSE <<base(j)>>]

\* applyFixedGridWithSizes(items, maxColumns): this.gridColumns, the inline
\* --grid-columns and the items with the spans it writes (span is the number
\* in the inline declaration, 0 without one); rows are the rows it built.
\* --computed-columns is read by no pass and is left out.
applyFixedGridWithSizes(items, maxCols, oAttr) ==
    LET itemSizeList == [k \in 1..Len(items) |->
                         resolveDataSize(items[k].size, maxCols)]
        fixedRows == fixedRowsFrom(itemSizeList, maxCols, 1, <<>>, 0)
        written == flatten([r \in 1..Len(fixedRows) |->
                               fixedRowSpans(fixedRows[r], items, itemSizeList,
                                             maxCols, oAttr)])
    IN  [gridColumns |-> maxCols,
         styleGridColumns |-> setGridColumns(maxCols),
         children |-> [k \in 1..Len(items) |->
                          [items[k] EXCEPT !.span =
                              IF written[k] = null THEN 0 ELSE written[k][1]]],
         rows |-> fixedRows,
         sizes |-> itemSizeList,
         written |-> written]

\* The end of applyLayout and of applyLayoutWithColumns for items without
\* data-size: calculateGridConfig, then spans when the rows differ in size.
applySmartDistribution(items, maxCols, oAttr) ==
    LET config == calculateGridConfig(Len(items), maxCols)
        dist == calculateRowDistribution(Len(items), maxCols)
        needsSmartDistribution == Len(uniqueSizes(dist)) > 1
        fixedSpan == IF Len(config.spans) > 0 /\ config.spans[1] # 0
                     THEN config.spans[1] ELSE 1
    IN  IF needsSmartDistribution
        THEN [gridColumns |-> config.gridColumns,
              styleGridColumns |-> setGridColumns(config.gridColumns),
              children |->
                  [k \in 1..Len(items) |->
                      IF hasDataSize(items[k]) THEN items[k]
                      ELSE IF orphans(oAttr) = "expand"
                      THEN IF k <= Len(config.spans) /\ config.spans[k] # 0
                           THEN [items[k] EXCEPT !.span = config.spans[k]]
                           ELSE items[k]
                      ELSE [items[k] EXCEPT !.span = fixedSpan]],
              rows |-> <<>>, sizes |-> <<>>, written |-> <<>>]
        ELSE [gridColumns |-> 0, styleGridColumns |-> setGridColumns(0),
              children |-> clearItemSpans(items),
              rows |-> <<>>, sizes |-> <<>>, written |-> <<>>]

\* applyLayout and applyLayoutWithColumns when balance is auto and there are
\* items: fixed-grid mode if an item has data-size
autoLayout(items, maxCols, oAttr) ==
    IF \E k \in 1..Len(items) : hasDataSize(items[k])
    THEN applyFixedGridWithSizes(items, maxCols, oAttr)
    ELSE applySmartDistribution(items, maxCols, oAttr)

\* Nothing to lay out: the grid columns are removed, the items are none.
emptyLayout(items) ==
    [gridColumns |-> 0, styleGridColumns |-> setGridColumns(0),
     children |-> items, rows |-> <<>>, sizes |-> <<>>, written |-> <<>>]

\* applyLayout() of the legacy component
applyLayoutLegacy(items, cAttr, bAttr, oAttr) ==
    IF Len(items) = 0 THEN emptyLayout(items)
    ELSE IF balance(bAttr) \in {"expand", "preserve"}
    THEN [rows |-> <<>>, sizes |-> <<>>, written |-> <<>>]
           @@ applyBalanceMode(items, cAttr, bAttr)
    ELSE autoLayout(items, legacyColumns(cAttr), oAttr)

\* Bound: how many children the fixed-grid runs start with
MaxFixedItems == 4

\* The data-size values of the fixed-grid runs: none, two semantic sizes,
\* and the numbers "1" and "0"
FixedGridSizes == {"null", "small", "medium", "one", "zero"}

\* The columns attribute of the fixed-grid runs: unset (3 columns), or one of
\* the other numbers from "1" to "12"
FixedColumnTexts ==
    {null, <<"1">>, <<"2">>, <<"4">>, <<"5">>, <<"6">>, <<"7">>,
     <<"8">>, <<"9">>, <<"1", "0">>, <<"1", "1">>, <<"1", "2">>}

\* A legacy element created with balance unset, to which children were
\* appended while it was in no document: no pass has seen them.
InitFixedGrid ==
    /\ pc = "created"
    /\ balanceAttr = "null"
    /\ orphansAttr \in {"null", "fixed"} /\ isSingleColumn = FALSE
    /\ columnsAttr = null
    /\ children \in BoundedSeq({[size |-> s, span |-> 0] : s \in FixedGridSizes},
                               MaxFixedItems)
    /\ itemCount = 0 /\ maxColumns = 1 /\ distribution = <<>>
    /\ sizes = <<>> /\ rows = <<>> /\ gridColumns = 0
    /\ fillArg = "equal-extra" /\ fillLastArg = "undefined" /\ spans = <<>>
    /\ connected = FALSE /\ connections = 0
    /\ fillAttr = "null" /\ fillLastAttr = "null"
    /\ styleColumns = 0 /\ styleGridColumns = 0
    /\ mutationObserver = null /\ resizeObserver = null
    /\ resizeTimeout = -1 /\ staleTimeouts = {}
    /\ unitResolver = null /\ effectiveColumnsValue = 0
    /\ lastCssProps = null /\ clientWidth = 0 /\ css = NoMinWidthStyle

\* attributeChangedCallback of the legacy component, after the attributes
\* became c, b and o; rows and sizes keep the rows and itemSizes of a pass
\* in fixed-grid mode, spans what it wrote to each item
fixedAttributeChangedCallback(c, b, o) ==
    /\ columnsAttr' = c /\ balanceAttr' = b /\ orphansAttr' = o
    /\ \E res \in {applyLayoutLegacy(children, c, b, o)} :
         /\ gridColumns' = res.gridColumns
         /\ styleGridColumns' = res.styleGridColumns
         /\ children' = res.children
         /\ rows' = res.rows
         /\ sizes' = res.sizes
         /\ spans' = res.written
    /\ pc' = "laid out"
    /\ UNCHANGED <<itemCount, maxColumns, distribution, fillArg,
                   fillLastArg, connected, connections, fillAttr,
                   isSingleColumn,
                   fillLastAttr, clientWidth, css, styleColumns,
                   mutationObserver, resizeObserver, resizeTimeout,
                   staleTimeouts, unitResolver, effectiveColumnsValue,
                   lastCssProps>>

\* setAttribute('columns', c)
FixedSetColumns ==
    \E c \in FixedColumnTexts :
        fixedAttributeChangedCallback(c, balanceAttr, orphansAttr)

\* setAttribute('orphans', 'fixed') and removeAttribute('orphans')
FixedSetOrphans ==
    \E o \in {"null", "fixed"} :
        fixedAttributeChangedCallback(columnsAttr, balanceAttr, o)

NextFixedGrid == FixedSetColumns \/ FixedSetOrphans

SpecFixedGrid == InitFixedGrid /\ [][NextFixedGrid]_vars

\* The last pass was one of fixed-grid mode
FixedGridPass ==
    /\ pc = "laid out"
    /\ \E k \in 1..Len(children) : hasDataSize(children[k])

\* The span item k is laid out with: its inline span, or without one the
\* span the stylesheet gives a semantic size
EffectiveSpan(k) ==
    IF children[k].span # 0 THEN children[k].span ELSE sizes[k]

\* The unit total of row r of the last fixed-grid pass
FixedRowTotal(r) == SumSeq([j \in 1..Len(rows[r]) |-> sizes[rows[r][j]]])

\* C24: in the legacy fixed-grid mode with orphans=expand, every row whose
\* unit total is below maxColumns and that holds a size-less or a semantic
\* item has spans that sum to exactly maxColumns; when the row has size-less
\* items only they are wider than their size.
C24_ExpandedRowFillsGrid ==
    (FixedGridPass /\ orphans(orphansAttr) = "expand") =>
        \A r \in 1..Len(rows) :
            (/\ FixedRowTotal(r) < gridColumns
             /\ \A j \in 1..Len(rows[r]) : sizes[rows[r][j]] >= 1
             /\ \E j \in 1..Len(rows[r]) :
                    \/ ~hasDataSize(children[rows[r][j]])
                    \/ isSemanticItem(children[rows[r][j]])) =>
                /\ SumSeq([j \in 1..Len(rows[r]) |->
                              EffectiveSpan(rows[r][j])]) = gridColumns
                /\ (\E j \in 1..Len(rows[r]) :
                        ~hasDataSize(children[rows[r][j]])) =>
                      \A j \in 1..Len(rows[r]) :
                          hasDataSize(children[rows[r][j]]) =>
                              EffectiveSpan(rows[r][j]) = sizes[rows[r][j]]

\* C30: in the legacy fixed-grid mode with maxColumns in 1..12 and items
\* whose sizes are 1 or more, every span written to an item is at least 1
\* and at most maxColumns.
C30_WrittenSpansWithinGrid ==
    (/\ FixedGridPass /\ gridColumns \in 1..12
     /\ \A k \in 1..Len(sizes) : sizes[k] >= 1) =>
        \A k \in 1..Len(spans) :
            spans[k] # null =>
                (spans[k][1] >= 1 /\ spans[k][1] <= gridColumns)

----------------------------------------------------------------------------
(* The legacy component in a document: observers, the resize timer,         *)
(* handleResize and applyLayoutWithColumns.                                 *)

\* applyBalanceModeWithColumns(items, maxColumns): applyBalanceMode with the
\* column count handed in
applyBalanceModeWithColumns(items, maxCols, bAttr) ==
    LET itemsWithoutSize == {k \in 1..Len(items) : ~hasDataSize(items[k])}
        count == Cardinality(itemsWithoutSize)
        orphanCount == count % maxCols
        fullRowCount == count \div maxCols
        lcmValue == (maxCols * orphanCount) \div gcd(maxCols, orphanCount)
        fullRowSpan == lcmValue \div maxCols
        orphanSpan == IF balance(bAttr) = "expand"
                      THEN lcmValue \div orphanCount ELSE fullRowSpan
        regularItemIndex(k) == Cardinality({j \in itemsWithoutSize : j < k})
        isOrphan(k) == regularItemIndex(k) >= fullRowCount * maxCols
    IN  IF count = 0
        THEN [gridColumns |-> 0, styleGridColumns |-> setGridColumns(0),
              children |-> items]
        ELSE IF orphanCount = 0
        THEN [gridColumns |-> 0, styleGridColumns |-> setGridColumns(0),
              children |-> clearItemSpans(items)]
        ELSE [gridColumns |-> lcmValue,
              styleGridColumns |-> setGridColumns(lcmValue),
              children |->
                  [k \in 1..Len(items) |->
                      IF hasDataSize(items[k]) THEN items[k]
                      ELSE [items[k] EXCEPT
                               !.span = IF isOrphan(k) THEN orphanSpan
                                        ELSE fullRowSpan]]]

\* applyLayoutWithColumns(maxColumns)
applyLayoutWithColumns(items, maxCols, bAttr, oAttr) ==
    IF Len(items) = 0 THEN emptyLayout(items)
    ELSE IF balance(bAttr) \in {"expand", "preserve"}
    THEN [rows |-> <<>>, sizes |-> <<>>, written |-> <<>>]
           @@ applyBalanceModeWithColumns(items, maxCols, bAttr)
    ELSE autoLayout(items, maxCols, oAttr)

\* resolveToPixels of the two lengths handleResize reads, with neither
\* --smart-grid-min-width nor --smart-grid-gap set: the measured widths of
\* '200px' and of '1rem'
legacyMinItemWidth == 200
legacyGap(style) == style.rootFontSize

\* handleResize(width): isSingleColumn, this.gridColumns, the inline
\* --grid-columns and the items afterwards; gc and sc are this.gridColumns
\* and the inline --grid-columns before
legacyHandleResize(width, items, cAttr, bAttr, oAttr, single, gc, sc, style) ==
    LET minItemWidth == legacyMinItemWidth
        gap == legacyGap(style)
        effectiveCols == Max(1, (width + gap) \div (minItemWidth + gap))
    IN  IF width <= 0
        THEN [isSingleColumn |-> single]
               @@ applyLayoutLegacy(items, cAttr, bAttr, oAttr)
        ELSE IF effectiveCols = 1
        THEN IF ~single
             THEN [isSingleColumn |-> TRUE, gridColumns |-> gc,
                   styleGridColumns |-> setGridColumns(0),
                   children |-> clearItemSpans(items)]
             ELSE [isSingleColumn |-> single, gridColumns |-> gc,
                   styleGridColumns |-> sc, children |-> items]
        ELSE [isSingleColumn |-> FALSE]
               @@ applyLayoutWithColumns(
                      items, Min(effectiveCols, legacyColumns(cAttr)),
                      bAttr, oAttr)

\* Bound: how many children the legacy element in a document gets
MaxResizeItems == 3

\* The content widths the resize observer reports, px: hidden, room for one
\* column, room for two
LegacyWidths == {0, 150, 500}

\* The data-size values and attributes of these runs
ResizeSizes == {"null", "small"}
ResizeColumnTexts == {null, <<"2">>}
ResizeBalances == {"null", "expand"}

\* A legacy element after construction, with no children and no attributes
InitLegacy ==
    /\ pc = "created"
    /\ balanceAttr = "null" /\ orphansAttr = "null" /\ isSingleColumn = FALSE
    /\ columnsAttr = null
    /\ children = <<>>
    /\ itemCount = 0 /\ maxColumns = 1 /\ distribution = <<>>
    /\ sizes = <<>> /\ rows = <<>> /\ gridColumns = 0
    /\ fillArg = "equal-extra" /\ fillLastArg = "undefined" /\ spans = <<>>
    /\ connected = FALSE /\ connections = 0
    /\ fillAttr = "null" /\ fillLastAttr = "null"
    /\ styleColumns = 0 /\ styleGridColumns = 0
    /\ mutationObserver = null /\ resizeObserver = null
    /\ resizeTimeout = -1 /\ staleTimeouts = {}
    /\ unitResolver = null /\ effectiveColumnsValue = 0
    /\ lastCssProps = null /\ clientWidth = 0 /\ css = NoMinWidthStyle

\* What no legacy action of these runs changes
legacyUnused ==
    <<itemCount, maxColumns, distribution, sizes, rows, fillArg, fillLastArg,
      spans, fillAttr, fillLastAttr, css, styleColumns, staleTimeouts,
      unitResolver, effectiveColumnsValue, lastCssProps>>

\* this.applyLayout() on the items given
legacyPass(items) ==
    \E res \in {applyLayoutLegacy(items, columnsAttr, balanceAttr,
                                  orphansAttr)} :
        /\ gridColumns' = res.gridColumns
        /\ styleGridColumns' = res.styleGridColumns
        /\ children' = res.children
        /\ pc' = "laid out"

\* The element is inserted into a document: connectedCallback
LegacyConnect ==
    /\ ~connected /\ connections < 1
    /\ connected' = TRUE /\ connections' = connections + 1
    /\ mutationObserver' = <<{}>> /\ resizeObserver' = <<clientWidth>>
    /\ legacyPass(children)
    /\ UNCHANGED <<columnsAttr, balanceAttr, orphansAttr, isSingleColumn,
                   clientWidth, resizeTimeout>>
    /\ UNCHANGED legacyUnused

\* setAttribute of columns or balance: attributeChangedCallback
LegacySetAttribute ==
    /\ \E c \in ResizeColumnTexts, b \in ResizeBalances :
         /\ (c # columnsAttr) # (b # balanceAttr)
         /\ columnsAttr' = c /\ balanceAttr' = b
         /\ \E res \in {applyLayoutLegacy(children, c, b, orphansAttr)} :
              /\ gridColumns' = res.gridColumns
              /\ styleGridColumns' = res.styleGridColumns
              /\ children' = res.children
    /\ pc' = "laid out"
    /\ UNCHANGED <<orphansAttr, isSingleColumn, connected, connections,
                   mutationObserver, resizeObserver, clientWidth,
                   resizeTimeout>>
    /\ UNCHANGED legacyUnused

\* appendChild of an item; in a document the mutation observer then runs
\* applyLayout
LegacyAppendChild ==
    /\ Len(children) < MaxResizeItems
    /\ \E s \in ResizeSizes :
         LET items == Append(children, [size |-> s, span |-> 0])
         IN  IF mutationObserver # null
             THEN legacyPass(items)
             ELSE /\ children' = items
                  /\ UNCHANGED <<gridColumns, styleGridColumns, pc>>
    /\ UNCHANGED <<columnsAttr, balanceAttr, orphansAttr, isSingleColumn,
                   connected, connections, mutationObserver, resizeObserver,
                   clientWidth, resizeTimeout>>
    /\ UNCHANGED legacyUnused

\* The resize observer reports a content width: the timer is set anew
LegacyResizeObserved ==
    /\ resizeObserver # null
    /\ \E width \in LegacyWidths :
         /\ clientWidth' = width
         /\ resizeTimeout' = width
    /\ UNCHANGED <<pc, columnsAttr, balanceAttr, orphansAttr, isSingleColumn,
                   connected, connections, mutationObserver, resizeObserver,
                   children, gridColumns, styleGridColumns>>
    /\ UNCHANGED legacyUnused

\* The 100 ms timer fires: handleResize(width)
LegacyResizeTimeout ==
    /\ resizeTimeout # -1
    /\ resizeTimeout' = -1
    /\ \E res \in {legacyHandleResize(resizeTimeout, children, columnsAttr,
                                      balanceAttr, orphansAttr,
                                      isSingleColumn, gridColumns,
                                      styleGridColumns, css)} :
         /\ isSingleColumn' = res.isSingleColumn
         /\ gridColumns' = res.gridColumns
         /\ styleGridColumns' = res.styleGridColumns
         /\ children' = res.children
    /\ pc' = "laid out"
    /\ UNCHANGED <<columnsAttr, balanceAttr, orphansAttr, connected,
                   connections, mutationObserver, resizeObserver,
                   clientWidth>>
    /\ UNCHANGED legacyUnused

NextLegacy ==
    \/ LegacyConnect
    \/ LegacySetAttribute
    \/ LegacyAppendChild
    \/ LegacyResizeObserved
    \/ LegacyResizeTimeout

SpecLegacy == InitLegacy /\ [][NextLegacy]_vars

\* C28: in the legacy component, whenever the grid is marked single-column
\* no item carries an inline span and --grid-columns is unset.
C28_SingleColumnHasNoSpans ==
    isSingleColumn =>
        /\ \A k \in 1..Len(children) : children[k].span = 0
        /\ styleGridColumns = 0

----------------------------------------------------------------------------
----------------------------------------------------------------------------
(* calculateSpans called on given rows and a given grid resolution.         *)

MaxSpanRows == 2        \* rows handed to calculateSpans
MaxRowItems == 3        \* items of one row
MaxUnitSize == 3        \* greatest item size
MaxGrid == 8            \* greatest grid resolution

\* The rows with the given sizes, the items indexed from 0 in row order
RECURSIVE rowsOfSizes(_, _)
rowsOfSizes(sizeRows, itemIndex) ==
    IF sizeRows = <<>> THEN <<>>
    ELSE <<[k \in 1..Len(Head(sizeRows)) |->
               [index |-> itemIndex + k - 1, size |-> Head(sizeRows)[k]]]>>
           \o rowsOfSizes(Tail(sizeRows), itemIndex + Len(Head(sizeRows)))

InitSpans ==
    /\ pc = "spans"
    /\ \E sizeRows \in BoundedSeq(
                          BoundedSeq(0..MaxUnitSize, MaxRowItems) \ {<<>>},
                          MaxSpanRows) :
         /\ rows = rowsOfSizes(sizeRows, 0)
         /\ sizes = flatten(sizeRows)
    /\ gridColumns \in 1..MaxGrid
    /\ itemCount = 0 /\ maxColumns = 1 /\ distribution = <<>>
    /\ fillArg = "equal-extra" /\ fillLastArg = "undefined" /\ spans = <<>>
    /\ ElementCreated /\ clientWidth = 0 /\ css = NoMinWidthStyle

NextSpans == CalculateSpans

SpecSpans == InitSpans /\ [][NextSpans]_vars

\* The unit total of the reference row: the first row of the greatest length
ReferenceTotal ==
    rowTotal(rows[CHOOSE r \in 1..Len(rows) :
                     /\ \A q \in 1..Len(rows) : Len(rows[q]) <= Len(rows[r])
                     /\ \A q \in 1..(r - 1) : Len(rows[q]) < Len(rows[r])])

\* The last row is scaled by a reference row whose unit total is 0
ScaledByZeroReference ==
    /\ Len(rows) > 0
    /\ fillArg = "equal-extra" /\ fillLastArg = "none"
    /\ ReferenceTotal = 0

\* The spans of row r, rows and spans being those of a finished call
SpansOfFinishedRow(r) == SpansOfRow(rows, spans, r)

\* C26: for rows with item sizes >= 0, a grid resolution G >= 1 and every
\* combination of fill and fill-last, calculateSpans returns one span per
\* item, each an integer >= 1, and a row whose unit total is 0 gets span 1
\* for each item.  (Left out: a last row scaled by a reference total of 0.)
C26_OneSpanPerItemAtLeastOne ==
    (pc = "done" /\ ~ScaledByZeroReference) =>
        /\ Len(spans) = Len(sizes)
        /\ \A k \in 1..Len(spans) : spans[k] >= 1
        /\ \A r \in 1..Len(rows) :
               rowTotal(rows[r]) = 0 =>
                   \A j \in 1..Len(rows[r]) : SpansOfFinishedRow(r)[j] = 1

\* The fill mode calculateSpans used for row r
ModeOfRow(r) ==
    IF r = Len(rows) /\ fillLastArg # "undefined" THEN fillLastArg
    ELSE fillArg

\* Row r has sizes of 1 or more and a unit total of at most the resolution
FitsResolution(r) ==
    /\ \A j \in 1..Len(rows[r]) : rows[r][j].size >= 1
    /\ gridColumns >= rowTotal(rows[r])

----------------------------------------------------------------------------
\* C27: after disconnectedCallback has run, no layout pass is executed on
\* the element until it is connected again: while the element is in no
\* document no step is a pass of the resize timer or of the mutation
\* observer, whether the timer was set before the disconnect or not.
C27_NoPassWhileDisconnected ==
    [][~connected =>
          ~(StaleResizeTimeout \/ ResizeTimeout \/ MutationCallback)]_vars

====
